---- MODULE Spec2Model ----
(***************************************************************************)
(* Mikordle: the board evaluator (src/utils/types.ts: add, remove, enter)  *)
(* and the GameState-level operations of the Mikordle component            *)
(* (src/components/mikorle/mikordle.tsx: addLetter, removeLetter, onEnter, *)
(* onKey).                                                                 *)
(*                                                                         *)
(* JavaScript objects are modelled with an explicit heap.  A board object  *)
(* {rows, complete, target} holds in `rows` the ADDRESS of its rows array; *)
(* the array itself (the rows, their letter arrays and the Letter objects  *)
(* in them) lives in `heap`.  `{...e}` copies the address, not the array,  *)
(* so a board and its shallow copy share one rows array.  A row's letter   *)
(* array and its Letter objects are only ever reached through the rows     *)
(* array that holds the row, so they are stored inline in the heap cell.   *)
(*                                                                         *)
(* Strings (target, activeGuess, the valid words) are sequences of         *)
(* one-character strings.                                                  *)
(***************************************************************************)
EXTENDS Naturals, Integers, Sequences, FiniteSets, TLC

VARIABLES
    props,      \* MikordleProps of the run: letterCount, guessesAllowed, columns, words, validWords
    harness,    \* who drives the run ("evaluator": add/remove/enter called directly on one
                \* board; "game": key events on the Mikordle component) and the words it types
    state,      \* the Mikordle component's this.state: a GameState or a WinState
    instance,   \* the board object the evaluator is called on directly
    heap,       \* address -> rows array (sequence of WordleRow)
    call,       \* the function the last step invoked
    threw,      \* whether that invocation raised an exception
    peers,      \* a session of two components: peer -> its this.state, its heap, its
                \* props.communicator and the number of keys its user has pressed in
                \* the session
    wire,       \* peer -> the messages the data channel holds for it, oldest first
    actor,      \* the peer whose listener the last step ran, what it ran on ("keydown":
                \* a key of its user, "message": a message of the channel) and the key
                \* event or the message
    transport,  \* peer -> its Connect component, its WebRTCCommunicator and its
                \* WebSocketMessenger: the fields of the three objects, the state of the
                \* RTCPeerConnection and the envelopes its socket has sent
    relay,      \* the relay server: the sockets subscribed to the channel, the envelopes
                \* it holds for each socket, and the payloads that came from elsewhere
    home        \* the route that mounts the game: the props of AutoSelectMikordle, its
                \* `words` state, Home's stage and copy statistics, the calls made to
                \* onEnd and to the statistics aggregator

vars == <<props, harness, state, instance, heap, call, threw, peers, wire, actor,
          transport, relay, home>>

-----------------------------------------------------------------------------
(* Bounds of the model and program constants *)

MaxWidth == 3       \* letters per word in the exhaustive runs
MaxGuesses == 2     \* guesses allowed per board, at most
MaxBoards == 2      \* boards per game, at most
WordLength == 5     \* the width the application plays with (scenario words)
Columns == 2

Alphabet == {"A", "B"}

RECURSIVE Words(_)
Words(n) == IF n = 0 THEN {<<>>}
            ELSE {Append(w, c) : w \in Words(n - 1), c \in Alphabet}

CRANE == <<"C", "R", "A", "N", "E">>
TRACE == <<"T", "R", "A", "C", "E">>
ALLOW == <<"A", "L", "L", "O", "W">>
LLAMA == <<"L", "L", "A", "M", "A">>

Incomplete == "false"

Last(s) == s[Len(s)]
SetLast(s, x) == [s EXCEPT ![Len(s)] = x]
Range(s) == {s[i] : i \in DOMAIN s}

-----------------------------------------------------------------------------
(* src/utils/types.ts *)

\* {letter: [], width}
NewRow(width) == [letter |-> <<>>, width |-> width]

\* the result of one evaluator call: the instance (its `complete` may have been
\* assigned), the heap (its rows array may have been mutated), and whether it threw
Outcome(inst, h, t) == [instance |-> inst, heap |-> h, threw |-> t]

add(inst, h, width, height, letter) ==
    IF inst.complete # Incomplete THEN Outcome(inst, h, FALSE)
    ELSE LET rows0 == h[inst.rows]
             rows1 == IF Len(rows0) = 0 THEN <<NewRow(width)>> ELSE rows0
             entry == Last(rows1)
         IN  IF Len(entry.letter) >= entry.width
             THEN Outcome(inst, [h EXCEPT ![inst.rows] = rows1], FALSE)
             ELSE Outcome(inst,
                          [h EXCEPT ![inst.rows] =
                              SetLast(rows1, [entry EXCEPT !.letter =
                                  Append(@, [letter |-> letter, state |-> "INVALID"])])],
                          FALSE)

\* remove without its first line, `if (instance.complete) return`
removeWhenComplete(inst, h) ==
    IF Len(h[inst.rows]) = 0 THEN Outcome(inst, h, FALSE)
    ELSE LET rows == h[inst.rows]
             entry == Last(rows)
         IN  IF Len(entry.letter) <= 0 THEN Outcome(inst, h, FALSE)
             ELSE Outcome(inst,
                          [h EXCEPT ![inst.rows] =
                              SetLast(rows, [entry EXCEPT !.letter =
                                  SubSeq(@, 1, Len(@) - 1)])],
                          FALSE)

\* remove splicing at index 0 instead of the last index
removeFirst(inst, h) ==
    IF inst.complete # Incomplete THEN Outcome(inst, h, FALSE)
    ELSE IF Len(h[inst.rows]) = 0 THEN Outcome(inst, h, FALSE)
    ELSE LET rows == h[inst.rows]
             entry == Last(rows)
         IN  IF Len(entry.letter) <= 0 THEN Outcome(inst, h, FALSE)
             ELSE Outcome(inst,
                          [h EXCEPT ![inst.rows] =
                              SetLast(rows, [entry EXCEPT !.letter = Tail(@)])],
                          FALSE)

remove(inst, h) ==
    IF inst.complete # Incomplete THEN Outcome(inst, h, FALSE)
    ELSE IF Len(h[inst.rows]) = 0 THEN Outcome(inst, h, FALSE)
    ELSE LET rows == h[inst.rows]
             entry == Last(rows)
         IN  IF Len(entry.letter) <= 0 THEN Outcome(inst, h, FALSE)
             ELSE Outcome(inst,
                          [h EXCEPT ![inst.rows] =
                              SetLast(rows, [entry EXCEPT !.letter =
                                  SubSeq(@, 1, Len(@) - 1)])],
                          FALSE)

\* targetCopy[i], undefined past the end of the string
CharAt(s, i) == IF i \in DOMAIN s THEN s[i] ELSE "undefined"

\* `${targetCopy.substring(0, i)}_${targetCopy.substring(i + 1)}`
Sentinel(s, i) == SubSeq(s, 1, i - 1) \o <<"_">> \o SubSeq(s, i + 1, Len(s))

\* targetCopy.split('').findIndex((e) => e === letter), 0 for -1
FindIndex(s, letter) ==
    IF \E i \in DOMAIN s : s[i] = letter
    THEN CHOOSE i \in DOMAIN s : s[i] = letter /\ \A j \in 1..(i - 1) : s[j] # letter
    ELSE 0

\* the first loop of enter, from position i on
RECURSIVE FirstPass(_, _, _)
FirstPass(i, letter, targetCopy) ==
    IF i > Len(letter) THEN [letter |-> letter, targetCopy |-> targetCopy]
    ELSE IF CharAt(targetCopy, i) = letter[i].letter
         THEN FirstPass(i + 1, [letter EXCEPT ![i].state = "MATCH"], Sentinel(targetCopy, i))
         ELSE FirstPass(i + 1, letter, targetCopy)

\* the second loop without the substitution of the sentinel for the occurrence found
RECURSIVE SecondPassNoMask(_, _, _)
SecondPassNoMask(i, letter, targetCopy) ==
    IF i > Len(letter) THEN [letter |-> letter, targetCopy |-> targetCopy]
    ELSE IF letter[i].state = "MATCH" THEN SecondPassNoMask(i + 1, letter, targetCopy)
    ELSE LET index == FindIndex(targetCopy, letter[i].letter)
         IN  IF index = 0
             THEN SecondPassNoMask(i + 1, [letter EXCEPT ![i].state = "INVALID"], targetCopy)
             ELSE SecondPassNoMask(i + 1, [letter EXCEPT ![i].state = "POSITION"], targetCopy)

\* the second loop without `if (state === 'MATCH') continue`
RECURSIVE SecondPassNoSkip(_, _, _)
SecondPassNoSkip(i, letter, targetCopy) ==
    IF i > Len(letter) THEN [letter |-> letter, targetCopy |-> targetCopy]
    ELSE LET index == FindIndex(targetCopy, letter[i].letter)
         IN  IF index = 0
             THEN SecondPassNoSkip(i + 1, [letter EXCEPT ![i].state = "INVALID"], targetCopy)
             ELSE SecondPassNoSkip(i + 1, [letter EXCEPT ![i].state = "POSITION"],
                                   Sentinel(targetCopy, index))

\* the second loop walking the row from its last position to its first
RECURSIVE SecondPassBackwards(_, _, _)
SecondPassBackwards(i, letter, targetCopy) ==
    IF i > Len(letter) THEN [letter |-> letter, targetCopy |-> targetCopy]
    ELSE LET at == Len(letter) + 1 - i
         IN  IF letter[at].state = "MATCH" THEN SecondPassBackwards(i + 1, letter, targetCopy)
             ELSE LET index == FindIndex(targetCopy, letter[at].letter)
                  IN  IF index = 0
                      THEN SecondPassBackwards(i + 1, [letter EXCEPT ![at].state = "INVALID"],
                                               targetCopy)
                      ELSE SecondPassBackwards(i + 1, [letter EXCEPT ![at].state = "POSITION"],
                                               Sentinel(targetCopy, index))

\* the second loop of enter, from position i on
RECURSIVE SecondPass(_, _, _)
SecondPass(i, letter, targetCopy) ==
    IF i > Len(letter) THEN [letter |-> letter, targetCopy |-> targetCopy]
    ELSE IF letter[i].state = "MATCH" THEN SecondPass(i + 1, letter, targetCopy)
    ELSE LET index == FindIndex(targetCopy, letter[i].letter)
         IN  IF index = 0
             THEN SecondPass(i + 1, [letter EXCEPT ![i].state = "INVALID"], targetCopy)
             ELSE SecondPass(i + 1, [letter EXCEPT ![i].state = "POSITION"],
                             Sentinel(targetCopy, index))

\* the evaluation in one pass, as it was before the two passes: a position is matched,
\* else looked up, before the later positions are compared
RECURSIVE SinglePass(_, _, _)
SinglePass(i, letter, targetCopy) ==
    IF i > Len(letter) THEN letter
    ELSE IF CharAt(targetCopy, i) = letter[i].letter
         THEN SinglePass(i + 1, [letter EXCEPT ![i].state = "MATCH"], Sentinel(targetCopy, i))
         ELSE LET index == FindIndex(targetCopy, letter[i].letter)
              IN  IF index = 0
                  THEN SinglePass(i + 1, [letter EXCEPT ![i].state = "INVALID"], targetCopy)
                  ELSE SinglePass(i + 1, [letter EXCEPT ![i].state = "POSITION"],
                                  Sentinel(targetCopy, index))

EvaluateSinglePass(letter, target) == SinglePass(1, letter, target)

\* the two passes: the letters of the row with their states worked out
Evaluate(letter, target) ==
    LET first == FirstPass(1, letter, target)
    IN  SecondPass(1, first.letter, first.targetCopy).letter

AllMatch(letter) == \A i \in DOMAIN letter : letter[i].state = "MATCH"

\* the completion step with the board-full test ahead of the all-MATCH test
CompleteFailFirst(inst, h, rows, width, height) ==
    IF Len(rows) >= height
    THEN Outcome([inst EXCEPT !.complete = "FAIL"], [h EXCEPT ![inst.rows] = rows], FALSE)
    ELSE IF AllMatch(Last(rows).letter)
    THEN Outcome([inst EXCEPT !.complete = "SUCCESS"], [h EXCEPT ![inst.rows] = rows], FALSE)
    ELSE Outcome(inst, [h EXCEPT ![inst.rows] = Append(rows, NewRow(width))], FALSE)

\* the completion step with `rows.length > height` for `rows.length >= height`
CompleteOneLate(inst, h, rows, width, height) ==
    IF AllMatch(Last(rows).letter)
    THEN Outcome([inst EXCEPT !.complete = "SUCCESS"], [h EXCEPT ![inst.rows] = rows], FALSE)
    ELSE IF Len(rows) > height
    THEN Outcome([inst EXCEPT !.complete = "FAIL"], [h EXCEPT ![inst.rows] = rows], FALSE)
    ELSE Outcome(inst, [h EXCEPT ![inst.rows] = Append(rows, NewRow(width))], FALSE)

\* the completion step of enter, on the rows with the last row evaluated
Complete(inst, h, rows, width, height) ==
    IF AllMatch(Last(rows).letter)
    THEN Outcome([inst EXCEPT !.complete = "SUCCESS"], [h EXCEPT ![inst.rows] = rows], FALSE)
    ELSE IF Len(rows) >= height
    THEN Outcome([inst EXCEPT !.complete = "FAIL"], [h EXCEPT ![inst.rows] = rows], FALSE)
    ELSE Outcome(inst, [h EXCEPT ![inst.rows] = Append(rows, NewRow(width))], FALSE)

\* enter without `if (entry.letter.length !== entry.width) return`
enterAnyLength(inst, h, width, height) ==
    IF Len(h[inst.rows]) = 0 THEN Outcome(inst, h, TRUE)
    ELSE LET rows == h[inst.rows]
             entry == Last(rows)
         IN  Complete(inst, h,
                      SetLast(rows, [entry EXCEPT !.letter = Evaluate(@, inst.target)]),
                      width, height)

enter(inst, h, width, height) ==
    \* instance.rows[instance.rows.length - 1] is undefined when there is no row:
    \* reading .letter of it is a TypeError
    IF Len(h[inst.rows]) = 0 THEN Outcome(inst, h, TRUE)
    ELSE LET rows == h[inst.rows]
             entry == Last(rows)
         IN  IF Len(entry.letter) # entry.width THEN Outcome(inst, h, FALSE)
             ELSE Complete(inst, h,
                           SetLast(rows, [entry EXCEPT !.letter = Evaluate(@, inst.target)]),
                           width, height)

-----------------------------------------------------------------------------
(* src/components/mikorle/mikordle.tsx *)

\* state.states.map((e) => { if (e.complete) return e; const copy = {...e};
\*                           add(copy, ...); return copy; }), the heap threaded through
RECURSIVE MapAdd(_, _, _, _)
MapAdd(states, h, s, letter) ==
    IF states = <<>> THEN [states |-> <<>>, heap |-> h]
    ELSE LET e == Head(states)
             r == IF e.complete # Incomplete THEN Outcome(e, h, FALSE)
                  ELSE add(e, h, s.letterCount, s.guessesAllowed, letter)
             rest == MapAdd(Tail(states), r.heap, s, letter)
         IN  [states |-> <<r.instance>> \o rest.states, heap |-> rest.heap]

RECURSIVE MapRemove(_, _)
MapRemove(states, h) ==
    IF states = <<>> THEN [states |-> <<>>, heap |-> h]
    ELSE LET e == Head(states)
             r == IF e.complete # Incomplete THEN Outcome(e, h, FALSE)
                  ELSE remove(e, h)
             rest == MapRemove(Tail(states), r.heap)
         IN  [states |-> <<r.instance>> \o rest.states, heap |-> rest.heap]

RECURSIVE MapEnter(_, _, _)
MapEnter(states, h, s) ==
    IF states = <<>> THEN [states |-> <<>>, heap |-> h, threw |-> FALSE]
    ELSE LET e == Head(states)
             r == IF e.complete # Incomplete THEN Outcome(e, h, FALSE)
                  ELSE enter(e, h, s.letterCount, s.guessesAllowed)
         IN  IF r.threw THEN [states |-> <<>>, heap |-> r.heap, threw |-> TRUE]
             ELSE LET rest == MapEnter(Tail(states), r.heap, s)
                  IN  [states |-> <<r.instance>> \o rest.states, heap |-> rest.heap,
                       threw |-> rest.threw]

\* the value a GameState-level function returns, with the heap it leaves
Returned(s, h, t) == [state |-> s, heap |-> h, threw |-> t]

\* addLetter without the test of the length of activeGuess
addLetterUnbounded(s, h, letter) ==
    LET m == MapAdd(s.states, h, s, letter)
    IN  Returned([s EXCEPT !.activeGuess = Append(@, letter), !.states = m.states],
                 m.heap, FALSE)

addLetter(s, h, letter) ==
    IF Len(s.activeGuess) >= s.letterCount THEN Returned(s, h, FALSE)
    ELSE LET m == MapAdd(s.states, h, s, letter)
         IN  Returned([s EXCEPT !.activeGuess = Append(@, letter), !.states = m.states],
                      m.heap, FALSE)

removeLetter(s, h) ==
    IF Len(s.activeGuess) <= 0 THEN Returned(s, h, FALSE)
    ELSE LET m == MapRemove(s.states, h)
         IN  Returned([s EXCEPT !.activeGuess = SubSeq(@, 1, Len(@) - 1), !.states = m.states],
                      m.heap, FALSE)

\* e.complete === 'SUCCESS' ? e.rows.length : false
Record(e, h) == IF e.complete = "SUCCESS" THEN [won |-> TRUE, guesses |-> Len(h[e.rows])]
                ELSE [won |-> FALSE, guesses |-> 0]

\* onEnter without the test of the guess against the valid words
onEnterAnyWord(s, h, validWords) ==
    IF Len(s.activeGuess) # s.letterCount THEN Returned(s, h, FALSE)
    ELSE LET m == MapEnter(s.states, h, s)
         IN  IF m.threw THEN Returned(s, m.heap, TRUE)
             ELSE IF \A i \in DOMAIN m.states : m.states[i].complete # Incomplete
             THEN Returned([type |-> "WinState",
                            records |-> [i \in DOMAIN m.states |-> Record(m.states[i], m.heap)],
                            guessesAllowed |-> s.guessesAllowed,
                            letterCount |-> s.letterCount,
                            columns |-> s.columns],
                           m.heap, FALSE)
             ELSE Returned([s EXCEPT !.states = m.states, !.activeGuess = <<>>], m.heap, FALSE)

\* onEnter with `some` in the place of `every`: a WinState as soon as one board is complete
onEnterSomeComplete(s, h, validWords) ==
    IF Len(s.activeGuess) # s.letterCount THEN Returned(s, h, FALSE)
    ELSE IF s.activeGuess \notin validWords THEN Returned(s, h, FALSE)
    ELSE LET m == MapEnter(s.states, h, s)
         IN  IF m.threw THEN Returned(s, m.heap, TRUE)
             ELSE IF \E i \in DOMAIN m.states : m.states[i].complete # Incomplete
             THEN Returned([type |-> "WinState",
                            records |-> [i \in DOMAIN m.states |-> Record(m.states[i], m.heap)],
                            guessesAllowed |-> s.guessesAllowed,
                            letterCount |-> s.letterCount,
                            columns |-> s.columns],
                           m.heap, FALSE)
             ELSE Returned([s EXCEPT !.states = m.states, !.activeGuess = <<>>], m.heap, FALSE)

\* onEnter returning the boards with the guess left as it was, not `activeGuess: ''`
onEnterKeepsGuess(s, h, validWords) ==
    IF Len(s.activeGuess) # s.letterCount THEN Returned(s, h, FALSE)
    ELSE IF s.activeGuess \notin validWords THEN Returned(s, h, FALSE)
    ELSE LET m == MapEnter(s.states, h, s)
         IN  IF m.threw THEN Returned(s, m.heap, TRUE)
             ELSE IF \A i \in DOMAIN m.states : m.states[i].complete # Incomplete
             THEN Returned([type |-> "WinState",
                            records |-> [i \in DOMAIN m.states |-> Record(m.states[i], m.heap)],
                            guessesAllowed |-> s.guessesAllowed,
                            letterCount |-> s.letterCount,
                            columns |-> s.columns],
                           m.heap, FALSE)
             ELSE Returned([s EXCEPT !.states = m.states], m.heap, FALSE)

onEnter(s, h, validWords) ==
    IF Len(s.activeGuess) # s.letterCount THEN Returned(s, h, FALSE)
    ELSE IF s.activeGuess \notin validWords THEN Returned(s, h, FALSE)
    ELSE LET m == MapEnter(s.states, h, s)
         IN  IF m.threw THEN Returned(s, m.heap, TRUE)
             ELSE IF \A i \in DOMAIN m.states : m.states[i].complete # Incomplete
             THEN Returned([type |-> "WinState",
                            records |-> [i \in DOMAIN m.states |-> Record(m.states[i], m.heap)],
                            guessesAllowed |-> s.guessesAllowed,
                            letterCount |-> s.letterCount,
                            columns |-> s.columns],
                           m.heap, FALSE)
             ELSE Returned([s EXCEPT !.states = m.states, !.activeGuess = <<>>], m.heap, FALSE)

\* the state the constructor builds: one empty board per word, each with a rows array
\* of its own
InitialState(p) ==
    [type |-> "GameState",
     activeGuess |-> <<>>,
     letterCount |-> p.letterCount,
     columns |-> p.columns,
     guessesAllowed |-> p.guessesAllowed,
     states |-> [k \in DOMAIN p.words |->
                    [rows |-> k, complete |-> Incomplete, target |-> p.words[k]]]]

\* e.key.toUpperCase()
ToUpperCase(key) ==
    CASE key = "a" -> "A"
      [] key = "b" -> "B"
      [] OTHER -> key

-----------------------------------------------------------------------------
(* The runs *)

Addresses == 1..(MaxBoards + 1)

\* the words a game may be played for: the first, the last and a middle word of the
\* dictionary order, so that targets with repeated and with distinct letters occur
AllB(n) == CHOOSE w \in Words(n) : \A i \in 1..n : w[i] = "B"
Pool(n) == {w \in Words(n) : \/ \A i \in 1..n : w[i] = "A"
                             \/ \A i \in 1..n : w[i] = (IF i = 1 THEN "A" ELSE "B")
                             \/ \A i \in 1..n : w[i] = (IF i = n THEN "A" ELSE "B")}

RECURSIVE Tuples(_, _)
Tuples(n, S) == IF n = 0 THEN {<<>>}
                ELSE {Append(t, x) : t \in Tuples(n - 1, S), x \in S}

\* the evaluator driven directly, for every target of the width and every guess
EvaluatorRuns ==
    {[props |-> [letterCount |-> MaxWidth, guessesAllowed |-> g, columns |-> Columns,
                 words |-> <<t>>, validWords |-> Words(MaxWidth)],
      harness |-> [driver |-> "evaluator", typeable |-> Words(MaxWidth)]] :
        g \in 1..MaxGuesses, t \in Words(MaxWidth)}

\* the evaluator driven directly on the scenario words
ScenarioRuns ==
    {[props |-> [letterCount |-> WordLength, guessesAllowed |-> MaxGuesses, columns |-> Columns,
                 words |-> <<sc[1]>>, validWords |-> {sc[1], sc[2]}],
      harness |-> [driver |-> "evaluator", typeable |-> {sc[2]}]] :
        sc \in {<<CRANE, TRACE>>, <<ALLOW, LLAMA>>}}

\* the component driven by key events: the words of the games are drawn from Pool, which
\* is also the valid-word list, and the keys typed spell a valid word or the one invalid
\* word AllB
GameRuns ==
    {[props |-> [letterCount |-> MaxWidth, guessesAllowed |-> g, columns |-> Columns,
                 words |-> ws, validWords |-> Pool(MaxWidth)],
      harness |-> [driver |-> "game", typeable |-> Pool(MaxWidth) \cup {AllB(MaxWidth)}]] :
        g \in 1..MaxGuesses,
        ws \in UNION {Tuples(n, Pool(MaxWidth)) : n \in 1..MaxBoards}}

Runs == EvaluatorRuns \cup ScenarioRuns \cup GameRuns

\* the address of the rows array of the board driven directly
InstanceAddr == MaxBoards + 1

Init ==
    \E r \in Runs :
        /\ props = r.props
        /\ harness = r.harness
        /\ state = InitialState(IF r.harness.driver = "game" THEN r.props
                                ELSE [r.props EXCEPT !.words = <<>>])
        /\ instance = [rows |-> InstanceAddr, complete |-> Incomplete,
                       target |-> IF r.harness.driver = "evaluator" THEN r.props.words[1]
                                  ELSE <<>>]
        /\ heap = [a \in Addresses |-> <<>>]
        /\ call = "constructor"
        /\ threw = FALSE
        /\ peers = <<>>
        /\ wire = <<>>
        /\ actor = [peer |-> "none", on |-> "mount", e |-> <<>>]
        /\ transport = <<>>
        /\ relay = <<>>
        /\ home = <<>>

\* the letters of the open row of a board, none when it has no row
OpenLetters(inst, h) ==
    IF Len(h[inst.rows]) = 0 THEN <<>>
    ELSE [i \in DOMAIN Last(h[inst.rows]).letter |-> Last(h[inst.rows]).letter[i].letter]

\* the letters the run may type next after `typed`: those that keep a row that still
\* has room a prefix of a word the run types
Typeable(typed, width) ==
    {c \in UNION {Range(w) : w \in harness.typeable} :
        Len(typed) < width =>
            \E w \in harness.typeable :
                /\ Len(w) > Len(typed)
                /\ SubSeq(w, 1, Len(typed) + 1) = Append(typed, c)}

(* the evaluator called directly on `instance` *)

Apply(r, name) ==
    /\ instance' = r.instance
    /\ heap' = r.heap
    /\ threw' = r.threw
    /\ call' = name
    /\ UNCHANGED <<home, props, harness, state, peers, wire, actor, transport, relay>>

CallAdd ==
    /\ harness.driver = "evaluator"
    /\ \E letter \in Typeable(IF instance.complete = Incomplete
                              THEN OpenLetters(instance, heap) ELSE <<>>,
                              props.letterCount) :
          Apply(add(instance, heap, props.letterCount, props.guessesAllowed, letter), "add")

CallRemove ==
    /\ harness.driver = "evaluator"
    /\ Apply(remove(instance, heap), "remove")

CallEnter ==
    /\ harness.driver = "evaluator"
    /\ Apply(enter(instance, heap, props.letterCount, props.guessesAllowed), "enter")

(* Mikordle.onKey(e), one action per branch; each of the three branches hands an *)
(* updater to setState, which runs it on the current state                       *)

\* the key events of the run: the letters of the alphabet with and without shift,
\* backspace, enter and the space bar
LetterEvents == {[keyCode |-> 65, key |-> "A"], [keyCode |-> 65, key |-> "a"],
                 [keyCode |-> 66, key |-> "B"], [keyCode |-> 66, key |-> "b"]}
Backspace == [keyCode |-> 8, key |-> ""]
Enter == [keyCode |-> 13, key |-> ""]
Space == [keyCode |-> 32, key |-> " "]

\* (e.keyCode < 65 || e.keyCode > 90) && e.keyCode !== 8 && e.keyCode !== 13
NotAKey(e) == (e.keyCode < 65 \/ e.keyCode > 90) /\ e.keyCode # 8 /\ e.keyCode # 13
IsLetter(e) == e.keyCode >= 65 /\ e.keyCode <= 90

\* Component.setState: the fields of the update are assigned over those of the state
SetState(s, update) ==
    [f \in DOMAIN s \cup DOMAIN update |-> IF f \in DOMAIN update THEN update[f] ELSE s[f]]

Update(r, name) ==
    /\ state' = SetState(state, r.state)
    /\ heap' = r.heap
    /\ threw' = r.threw
    /\ call' = name
    /\ UNCHANGED <<home, props, harness, instance, peers, wire, actor, transport, relay>>

\* onKey returns, or the updater returns the state it was given, with no call made
Ignore ==
    /\ call' = "onKey"
    /\ threw' = FALSE
    /\ UNCHANGED <<home, props, harness, state, instance, heap, peers, wire, actor, transport,
                   relay>>

OnKeyOther ==
    /\ harness.driver = "game"
    /\ \E e \in {Space} : NotAKey(e) /\ Ignore

OnKeyLetter ==
    /\ harness.driver = "game"
    /\ \E e \in LetterEvents :
          /\ ~NotAKey(e) /\ IsLetter(e)
          /\ ToUpperCase(e.key) \in Typeable(IF state.type = "GameState" THEN state.activeGuess
                                             ELSE <<>>, props.letterCount)
          /\ IF state.type # "GameState" THEN Ignore
             ELSE Update(addLetter(state, heap, ToUpperCase(e.key)), "addLetter")

OnKeyBackspace ==
    /\ harness.driver = "game"
    /\ \E e \in {Backspace} :
          /\ ~NotAKey(e) /\ e.keyCode = 8
          /\ IF state.type # "GameState" THEN Ignore
             ELSE Update(removeLetter(state, heap), "removeLetter")

OnKeyEnter ==
    /\ harness.driver = "game"
    /\ \E e \in {Enter} :
          /\ ~NotAKey(e) /\ e.keyCode = 13
          /\ IF state.type # "GameState" THEN Ignore
             ELSE Update(onEnter(state, heap, props.validWords), "onEnter")

Next ==
    \/ CallAdd
    \/ CallRemove
    \/ CallEnter
    \/ OnKeyOther
    \/ OnKeyLetter
    \/ OnKeyBackspace
    \/ OnKeyEnter

Spec == Init /\ [][Next]_vars

-----------------------------------------------------------------------------
(* A session: two Mikordle components, each with a MikordleChat as props.communicator, *)
(* joined by one ordered data channel                                                   *)

SessionWidth == 2   \* letters per word in the session runs
SessionGuesses == 1 \* guesses allowed in the session runs
MaxKeys == 3        \* keys pressed in a session run, at most

Peers == {"leader", "joiner"}
Other(p) == IF p = "leader" THEN "joiner" ELSE "leader"

\* the messages MikordleChat sends, as JSON.parse gives them to the receiver
KeyPressed(key) == [event |-> "key-pressed", value |-> key]
KeyRemoved == [event |-> "key-removed"]
EnterPressed == [event |-> "enter-pressed"]
Initialise(snapshot) == [event |-> "initialise", value |-> snapshot]
Request == [event |-> "request"]

\* key.charCodeAt(0)
CharCodeAt(key) ==
    CASE key = "A" -> 65
      [] key = "B" -> 66
      [] key = "a" -> 97
      [] key = "b" -> 98
      [] OTHER -> 0

\* JSON.stringify(state): the text holds the rows of every board, not the address of
\* the array
Stringify(s, h) ==
    IF "states" \in DOMAIN s
    THEN [s EXCEPT !.states = [k \in DOMAIN s.states |->
                                  [s.states[k] EXCEPT !.rows = h[s.states[k].rows]]]]
    ELSE s

\* JSON.parse(text): the objects are built anew, every board with a rows array of its
\* own; the array of board k is put at address k
Parse(value, h) ==
    IF "states" \in DOMAIN value
    THEN [state |-> [value EXCEPT !.states = [k \in DOMAIN value.states |->
                                                [value.states[k] EXCEPT !.rows = k]]],
          heap |-> [a \in DOMAIN h |-> IF a \in DOMAIN value.states
                                       THEN value.states[a].rows ELSE h[a]]]
    ELSE [state |-> value, heap |-> h]

\* what a listener of a component leaves: this.state, the heap, the messages it sent,
\* the function it called last and whether that raised
Handled(s, h, out, name, t) ==
    [state |-> s, heap |-> h, sent |-> out, call |-> name, threw |-> t]

\* the flag of onKey the wrong way round: only replicated keys are sent on
BroadcastsSynthetic(communicator, synthetic) == communicator # "undefined" /\ synthetic

\* the flag of onKey not looked at: every key applied is sent
BroadcastsAlways(communicator, synthetic) == communicator # "undefined"

\* this.props.communicator && !synthetic
Broadcasts(communicator, synthetic) == communicator # "undefined" /\ ~synthetic

\* the key sent as it was typed, not upper-cased
BroadcastAsTyped(e) ==
    IF IsLetter(e) THEN KeyPressed(e.key)
    ELSE IF e.keyCode = 8 THEN KeyRemoved
    ELSE EnterPressed

\* the message onKey has the communicator send for key event e
Broadcast(e) ==
    IF IsLetter(e) THEN KeyPressed(ToUpperCase(e.key))
    ELSE IF e.keyCode = 8 THEN KeyRemoved
    ELSE EnterPressed

\* onKey(e, synthetic) on a component whose state is s
onKey(s, h, communicator, validWords, e, synthetic) ==
    IF NotAKey(e) \/ s.type # "GameState" THEN Handled(s, h, <<>>, "onKey", FALSE)
    ELSE LET out == IF Broadcasts(communicator, synthetic) THEN <<Broadcast(e)>> ELSE <<>>
             r == IF IsLetter(e) THEN addLetter(s, h, ToUpperCase(e.key))
                  ELSE IF e.keyCode = 8 THEN removeLetter(s, h)
                  ELSE onEnter(s, h, validWords)
             name == IF IsLetter(e) THEN "addLetter"
                     ELSE IF e.keyCode = 8 THEN "removeLetter"
                     ELSE "onEnter"
         IN  Handled(SetState(s, r.state), r.heap, out, name, r.threw)

\* the listeners shouldComponentUpdate registers on the communicator
onKeyPressed(s, h, communicator, validWords, key) ==
    onKey(s, h, communicator, validWords, [keyCode |-> CharCodeAt(key), key |-> key], TRUE)

onKeyRemoved(s, h, communicator, validWords) ==
    onKey(s, h, communicator, validWords, [keyCode |-> 8, key |-> ""], TRUE)

onEnterPressed(s, h, communicator, validWords) ==
    onKey(s, h, communicator, validWords, [keyCode |-> 13, key |-> ""], TRUE)

\* the initialise listener with the test the request listener makes
onInitialiseGameStateOnly(s, h, value) ==
    IF s.type # "GameState" THEN Handled(s, h, <<>>, "initialise", FALSE)
    ELSE LET parsed == Parse(value, h)
         IN  Handled(SetState(s, parsed.state), parsed.heap, <<>>, "setState", FALSE)

onInitialise(s, h, value) ==
    LET parsed == Parse(value, h)
    IN  Handled(SetState(s, parsed.state), parsed.heap, <<>>, "setState", FALSE)

\* the request listener without its test of this.state.type
onRequestAnyState(s, h) ==
    Handled(s, h, <<Initialise(Stringify(s, h))>>, "initialise", FALSE)

onRequest(s, h) ==
    IF s.type # "GameState" THEN Handled(s, h, <<>>, "request", FALSE)
    ELSE Handled(s, h, <<Initialise(Stringify(s, h))>>, "initialise", FALSE)

(* the session runs *)

\* the game both components are mounted with: one board, its word drawn from Pool,
\* which is also the valid-word list
SessionTarget == CHOOSE w \in Pool(SessionWidth) : w[1] = "A" /\ w[SessionWidth] = "B"
SessionProps ==
    [letterCount |-> SessionWidth, guessesAllowed |-> SessionGuesses, columns |-> Columns,
     words |-> <<SessionTarget>>, validWords |-> Pool(SessionWidth)]

\* a component as its constructor leaves it, with no communicator yet
Mounted ==
    [state |-> InitialState(SessionProps),
     heap |-> [a \in DOMAIN SessionProps.words |-> <<>>]]

\* the component after its user has pressed the keys `typed`, one after the other
RECURSIVE Played(_)
Played(typed) ==
    IF typed = <<>> THEN Mounted
    ELSE LET before == Played(SubSeq(typed, 1, Len(typed) - 1))
             r == onKey(before.state, before.heap, "undefined", SessionProps.validWords,
                        Last(typed), FALSE)
         IN  [state |-> r.state, heap |-> r.heap]

KeyOf(c) == [keyCode |-> CharCodeAt(c), key |-> c]
Keys(word) == [i \in DOMAIN word |-> KeyOf(word[i])]

\* what the user of a component has done before the session: nothing, typed the
\* first letter of a word, or played the game to its end
SoloPlays == {<<>>, <<KeyOf("A")>>, Append(Keys(SessionTarget), Enter)}

\* the letter keys of the session runs: A with shift, b without
SessionLetterEvents == {[keyCode |-> 65, key |-> "A"], [keyCode |-> 66, key |-> "b"]}

\* two components, each as `plays` leaves it, each with the communicator given;
\* `typists` are the peers whose user presses keys in the session
Session(plays, communicator, typists) ==
    /\ props = SessionProps
    /\ harness = [driver |-> "session",
                  typeable |-> Pool(SessionWidth) \cup {AllB(SessionWidth)},
                  typists |-> typists]
    /\ state = InitialState([SessionProps EXCEPT !.words = <<>>])
    /\ instance = [rows |-> InstanceAddr, complete |-> Incomplete, target |-> <<>>]
    /\ heap = [a \in Addresses |-> <<>>]
    /\ call = "constructor"
    /\ threw = FALSE
    /\ peers = [p \in Peers |-> [state |-> Played(plays[p]).state,
                                  heap |-> Played(plays[p]).heap,
                                  communicator |-> communicator,
                                  pressed |-> 0]]
    /\ wire = [p \in Peers |-> <<>>]
    /\ actor = [peer |-> "none", on |-> "mount", e |-> <<>>]
    /\ transport = <<>>
    /\ relay = <<>>
    /\ home = <<>>

\* two components mounted and played apart, no communicator set yet
SessionInit == \E plays \in [Peers -> SoloPlays] : Session(plays, "undefined", Peers)

\* one listener of peer p has run, on a key of its user (on = "keydown") or on the
\* oldest message the channel held for it (on = "message")
Step(p, r, on, e) ==
    /\ peers' = [peers EXCEPT ![p].state = r.state, ![p].heap = r.heap,
                              ![p].pressed = IF on = "keydown" THEN @ + 1 ELSE @]
    /\ wire' = IF on = "message"
               THEN [wire EXCEPT ![p] = Tail(@), ![Other(p)] = @ \o r.sent]
               ELSE [wire EXCEPT ![Other(p)] = @ \o r.sent]
    /\ actor' = [peer |-> p, on |-> on, e |-> e]
    /\ call' = r.call
    /\ threw' = r.threw
    /\ UNCHANGED <<home, props, harness, state, instance, heap, transport, relay>>

KeyDown(p, e) ==
    /\ harness.driver = "session"
    /\ p \in harness.typists
    /\ peers[p].communicator = "open"
    /\ peers["leader"].pressed + peers["joiner"].pressed < MaxKeys
    /\ Step(p, onKey(peers[p].state, peers[p].heap, peers[p].communicator,
                     props.validWords, e, FALSE), "keydown", e)

KeyDownLetter ==
    \E p \in Peers : \E e \in SessionLetterEvents :
        /\ ToUpperCase(e.key) \in Typeable(IF peers[p].state.type = "GameState"
                                            THEN peers[p].state.activeGuess ELSE <<>>,
                                            props.letterCount)
        /\ KeyDown(p, e)

KeyDownBackspace == \E p \in Peers : KeyDown(p, Backspace)

KeyDownEnter == \E p \in Peers : KeyDown(p, Enter)

\* Connect: the joiner opens the channel the leader waits on; each Mikordle is handed
\* its MikordleChat and registers its listeners; once ready the joiner sends request
Connect ==
    /\ harness.driver = "session"
    /\ \A p \in Peers : peers[p].communicator = "undefined"
    /\ peers' = [p \in Peers |-> [peers[p] EXCEPT !.communicator = "open"]]
    /\ wire' = [wire EXCEPT !["leader"] = Append(@, Request)]
    /\ actor' = [peer |-> "joiner", on |-> "ready", e |-> <<>>]
    /\ call' = "request"
    /\ threw' = FALSE
    /\ UNCHANGED <<home, props, harness, state, instance, heap, transport, relay>>

\* MikordleChat hands the oldest message to the listeners of its event
Receives(p, event) ==
    /\ harness.driver = "session"
    /\ peers[p].communicator = "open"
    /\ wire[p] # <<>>
    /\ Head(wire[p]).event = event

DeliverKeyPressed ==
    \E p \in Peers :
        /\ Receives(p, "key-pressed")
        /\ Step(p, onKeyPressed(peers[p].state, peers[p].heap, peers[p].communicator,
                                props.validWords, Head(wire[p]).value),
                "message", Head(wire[p]))

DeliverKeyRemoved ==
    \E p \in Peers :
        /\ Receives(p, "key-removed")
        /\ Step(p, onKeyRemoved(peers[p].state, peers[p].heap, peers[p].communicator,
                                props.validWords),
                "message", Head(wire[p]))

DeliverEnterPressed ==
    \E p \in Peers :
        /\ Receives(p, "enter-pressed")
        /\ Step(p, onEnterPressed(peers[p].state, peers[p].heap, peers[p].communicator,
                                  props.validWords),
                "message", Head(wire[p]))

DeliverInitialise ==
    \E p \in Peers :
        /\ Receives(p, "initialise")
        /\ Step(p, onInitialise(peers[p].state, peers[p].heap, Head(wire[p]).value),
                "message", Head(wire[p]))

DeliverRequest ==
    \E p \in Peers :
        /\ Receives(p, "request")
        /\ Step(p, onRequest(peers[p].state, peers[p].heap), "message", Head(wire[p]))

SessionNext ==
    \/ KeyDownLetter
    \/ KeyDownBackspace
    \/ KeyDownEnter
    \/ Connect
    \/ DeliverKeyPressed
    \/ DeliverKeyRemoved
    \/ DeliverEnterPressed
    \/ DeliverInitialise
    \/ DeliverRequest

SpecSession == SessionInit /\ [][SessionNext]_vars

\* two components in a session, their states equal, the channel open and empty, and
\* one user at the keys
OneWayInit == \E a \in Peers : Session([p \in Peers |-> <<>>], "open", {a})

OneWayNext ==
    \/ KeyDownLetter
    \/ KeyDownBackspace
    \/ KeyDownEnter
    \/ DeliverKeyPressed
    \/ DeliverKeyRemoved
    \/ DeliverEnterPressed

SpecOneWay == OneWayInit /\ [][OneWayNext]_vars

-----------------------------------------------------------------------------
(* The transport of a session: src/utils/messenger.ts (WebSocketMessenger,        *)
(* WebRTCCommunicator, MikordleChat) and src/components/connect/connect.tsx.       *)
(* A text is a record: JSON.stringify(v) gives a text JSON.parse turns back into  *)
(* v, and NotJSON is a text JSON.parse throws on.  A JavaScript object is a       *)
(* record of its own properties.                                                   *)

MaxNoise == 1   \* payloads the two peers did not send, per run, at most

\* SIGNALLING_SERVER and the key both WebRTCCommunicators are constructed on
ChannelId == "KEY01"

\* no exception
Nothing == "nothing"

JSONStringify(value) == [valid |-> TRUE, value |-> value]

NotJSON == [valid |-> FALSE]

\* JSON.parse(text): the value, or a SyntaxError
JSONParse(text) ==
    IF text.valid THEN [threw |-> FALSE, value |-> text.value] ELSE [threw |-> TRUE]

\* '' as the raw of an init message
Empty == [length |-> 0]

\* null, as JSON.parse gives it for the text null
Null == [null |-> TRUE]

\* the negotiation messages
InitMessage == [type |-> "init", raw |-> Empty]
Sdp(kind) == [type |-> "sdp", raw |-> [type |-> kind]]
Ice(candidate) == [type |-> "ice", raw |-> [candidate |-> candidate]]

\* the close event of MikordleChat
Close == [event |-> "close"]

\* the envelope socket.onopen sends
Subscribe(channel, id) ==
    JSONStringify([topic |-> "_subscribe", message |-> channel, id |-> id])

\* the envelope WebSocketMessenger.send(data) sends
Envelope(channel, data, id) ==
    JSONStringify([topic |-> channel, message |-> JSONStringify(data), id |-> id])

\* an RTCPeerConnection as new RTCPeerConnection() leaves it: its descriptions, the
\* state of the data channel 'comms' as this side sees it ("none": no such channel
\* here), the negotiationneeded event it owes, its candidate gathering and the
\* candidates of the other side it holds
NewConnection ==
    [closed |-> FALSE, localDescription |-> "null", remoteDescription |-> "null",
     channel |-> "none", negotiationneeded |-> FALSE, gathering |-> "new",
     candidates |-> {}, created |-> 0]

\* the connection has no channel and no description yet
Untouched(pc) ==
    /\ pc.created = 0
    /\ pc.channel = "none"
    /\ pc.localDescription = "null"
    /\ pc.remoteDescription = "null"

\* RTCPeerConnection.createDataChannel('comms'): the connection has one more channel
\* of its own making.  The first channel of a connection without a description is
\* the one it owes a negotiation for; a later one rides on the connection there is,
\* and its own opening is not followed
createDataChannel(pc) ==
    [pc EXCEPT !.created = @ + 1,
               !.channel = IF Untouched(pc) THEN "connecting" ELSE @,
               !.negotiationneeded = IF Untouched(pc) THEN TRUE ELSE @]

\* a peer once Connect has constructed its MikordleChat: Connect's `open`, the
\* fields of the WebSocketMessenger (socket.readyState, nextMessageID, whether the
\* handler of setup is among its listeners), the fields of the WebRTCCommunicator
\* (isReady, the callbacks waiting on ready() and whether their promises are
\* resolved, dataChannel, localConnection) and the envelopes the socket has sent
Constructed(role, waiting) ==
    [open |-> role,
     communicator |-> "set",
     initiate |-> role = "joiner",
     socket |-> "CONNECTING",
     nextMessageID |-> 0,
     listening |-> FALSE,
     isReady |-> FALSE,
     readyListeners |-> waiting,
     resolved |-> FALSE,
     dataChannel |-> "undefined",
     localConnection |-> NewConnection,
     sent |-> <<>>]

\* what a handler of the transport leaves: the peer, the envelopes its socket sent,
\* the texts its data channel sent, the function it called last and what that raised
Result(t, out, data, name, thrown) ==
    [t |-> t, out |-> out, data |-> data, call |-> name, threw |-> thrown]

\* WebSocketMessenger.send(data)
SignalerSend(t, data) ==
    [t |-> [t EXCEPT !.nextMessageID = @ + 1],
     out |-> <<Envelope(ChannelId, data, t.nextMessageID)>>]

\* setup that sends init whatever `initiate` is
setupAlwaysInitiates(t, initiate) ==
    SignalerSend([t EXCEPT !.listening = TRUE], InitMessage)

\* setup that sends init a second time
setupResends(t, initiate) ==
    LET on == [t EXCEPT !.listening = TRUE]
        first == SignalerSend(on, InitMessage)
        second == SignalerSend(first.t, InitMessage)
    IN  IF initiate THEN [t |-> second.t, out |-> first.out \o second.out]
        ELSE [t |-> on, out |-> <<>>]

\* WebRTCCommunicator.setup(initiate): the handlers are registered, and the peer that
\* was given a key sends init
setup(t, initiate) ==
    LET on == [t EXCEPT !.listening = TRUE]
    IN  IF initiate THEN SignalerSend(on, InitMessage) ELSE [t |-> on, out |-> <<>>]

\* socket.onopen with the waiters of ready() served before the subscription
onopenReadyFirst(t) ==
    LET s == setup([t EXCEPT !.socket = "OPEN"], t.initiate)
    IN  Result([s.t EXCEPT !.nextMessageID = @ + 1],
               s.out \o <<Subscribe(ChannelId, s.t.nextMessageID)>>, <<>>, "setup", Nothing)

\* socket.onopen: the subscription is sent, then the promise of signaler.ready()
\* resolves and the constructor's callback runs setup(key !== undefined)
onopen(t) ==
    LET s == setup([t EXCEPT !.socket = "OPEN", !.nextMessageID = @ + 1], t.initiate)
    IN  Result(s.t, <<Subscribe(ChannelId, t.nextMessageID)>> \o s.out, <<>>, "setup",
               Nothing)

\* typeof(value) of a parsed value
TypeOf(value) == IF "typeof" \in DOMAIN value THEN value.typeof ELSE "object"

\* whether setRemoteDescription(raw) is taken: an offer on a connection with no
\* description yet, an answer on one whose own offer is set
Accepts(pc, raw) ==
    /\ ~pc.closed
    /\ "type" \in DOMAIN raw
    /\ \/ /\ raw.type = "offer"
          /\ pc.localDescription = "null"
          /\ pc.remoteDescription = "null"
       \/ /\ raw.type = "answer"
          /\ pc.localDescription = "offer"
          /\ pc.remoteDescription = "null"

\* the handler without the test of 'raw'
onSignalNoRawTest(t, value) ==
    IF TypeOf(value) # "object" \/ "type" \notin DOMAIN value
    THEN Result(t, <<>>, <<>>, "signal", Nothing)
    ELSE IF value.type = "init"
    THEN Result([t EXCEPT !.localConnection = createDataChannel(@),
                          !.resolved = TRUE, !.isReady = TRUE],
                <<>>, <<>>, "createDataChannel", Nothing)
    ELSE Result(t, <<>>, <<>>, "signal", Nothing)

\* the handler answering every description it is sent
onSignalAnswersAll(t, value) ==
    IF value.type = "sdp"
    THEN LET s == SignalerSend([t EXCEPT !.localConnection.remoteDescription =
                                             value.raw.type], Sdp("answer"))
         IN  Result(s.t, s.out, <<>>, "setLocalDescription", Nothing)
    ELSE IF value.type = "init"
    THEN Result([t EXCEPT !.localConnection = createDataChannel(@),
                          !.resolved = TRUE, !.isReady = TRUE],
                <<>>, <<>>, "createDataChannel", Nothing)
    ELSE Result(t, <<>>, <<>>, "signal", Nothing)

\* the handler setup registers on the signaler.  typeof(null) is 'object', and
\* hasOwnProperty.call(null, 'type') raises in the async handler, whose promise nobody
\* waits on.  Every type the model sends is a string, so the test of
\* typeof(value.type) never fails
onSignal(t, value) ==
    IF TypeOf(value) # "object" THEN Result(t, <<>>, <<>>, "signal", Nothing)
    ELSE IF value = Null THEN Result(t, <<>>, <<>>, "hasOwnProperty", "TypeError")
    ELSE IF "type" \notin DOMAIN value THEN Result(t, <<>>, <<>>, "warn", Nothing)
    ELSE IF "raw" \notin DOMAIN value THEN Result(t, <<>>, <<>>, "warn", Nothing)
    ELSE IF value.type = "ice"
    THEN IF t.localConnection.closed \/ t.localConnection.remoteDescription = "null"
         THEN Result(t, <<>>, <<>>, "addIceCandidate", "InvalidStateError")
         ELSE Result([t EXCEPT !.localConnection.candidates = @ \cup {value.raw.candidate}],
                     <<>>, <<>>, "addIceCandidate", Nothing)
    ELSE IF value.type = "sdp"
    THEN IF ~Accepts(t.localConnection, value.raw)
         THEN Result(t, <<>>, <<>>, "setRemoteDescription", "InvalidStateError")
         ELSE IF value.raw.type = "offer"
         THEN LET s == SignalerSend([t EXCEPT !.localConnection.remoteDescription = "offer",
                                              !.localConnection.localDescription = "answer",
                                              !.localConnection.gathering = "gathering"],
                                    Sdp("answer"))
              IN  Result(s.t, s.out, <<>>, "setLocalDescription", Nothing)
         ELSE Result([t EXCEPT !.localConnection.remoteDescription = value.raw.type],
                     <<>>, <<>>, "setRemoteDescription", Nothing)
    ELSE IF value.type = "init"
    THEN Result([t EXCEPT !.localConnection = createDataChannel(@),
                          !.resolved = TRUE, !.isReady = TRUE],
                <<>>, <<>>, "createDataChannel", Nothing)
    ELSE Result(t, <<>>, <<>>, "signal", Nothing)

\* socket.onmessage without the test of the topic
onmessageNoFilter(t, data) ==
    LET content == JSONParse(data)
    IN  IF content.threw THEN Result(t, <<>>, <<>>, "error", Nothing)
        ELSE LET message == JSONParse(content.value.message)
             IN  IF message.threw THEN Result(t, <<>>, <<>>, "error", Nothing)
                 ELSE IF ~t.listening THEN Result(t, <<>>, <<>>, "onmessage", Nothing)
                 ELSE onSignal(t, message.value)

\* socket.onmessage: a text that does not parse is caught and logged, a _system
\* envelope is logged, any other message is parsed and handed to the listeners
onmessage(t, data) ==
    LET content == JSONParse(data)
    IN  IF content.threw THEN Result(t, <<>>, <<>>, "error", Nothing)
        ELSE IF content.value.topic = "_system" THEN Result(t, <<>>, <<>>, "debug", Nothing)
        ELSE LET message == JSONParse(content.value.message)
             IN  IF message.threw THEN Result(t, <<>>, <<>>, "error", Nothing)
                 ELSE IF ~t.listening THEN Result(t, <<>>, <<>>, "onmessage", Nothing)
                 ELSE onSignal(t, message.value)

\* the listener of 'negotiationneeded': createOffer, setLocalDescription, send
onnegotiationneeded(t) ==
    LET s == SignalerSend([t EXCEPT !.localConnection.localDescription = "offer",
                                    !.localConnection.negotiationneeded = FALSE,
                                    !.localConnection.gathering = "gathering"],
                          Sdp("offer"))
    IN  Result(s.t, s.out, <<>>, "setLocalDescription", Nothing)

\* the listener of 'icecandidate'; the last event of a gathering has no candidate
onicecandidate(t, candidate) ==
    IF candidate # "null"
    THEN LET s == SignalerSend(t, Ice(candidate))
         IN  Result(s.t, s.out, <<>>, "icecandidate", Nothing)
    ELSE Result(t, <<>>, <<>>, "icecandidate", Nothing)

\* the listener of 'datachannel'
ondatachannel(t) ==
    Result([t EXCEPT !.dataChannel = "comms", !.resolved = TRUE, !.isReady = TRUE],
           <<>>, <<>>, "datachannel", Nothing)

\* dataChannel.onopen of the channel the init branch created
ondatachannelopen(t) ==
    Result([t EXCEPT !.dataChannel = "comms"], <<>>, <<>>, "onopen", Nothing)

\* send with the test of isReady alone
sendWhenReady(t, value) ==
    IF ~t.isReady THEN [threw |-> "not open", data |-> <<>>]
    ELSE IF t.dataChannel = "undefined" THEN [threw |-> "TypeError", data |-> <<>>]
    ELSE [threw |-> Nothing, data |-> <<value>>]

\* WebRTCCommunicator.send(value); RTCDataChannel.send raises on a channel that is
\* not open
send(t, value) ==
    IF ~t.isReady \/ t.dataChannel = "undefined"
    THEN [threw |-> "not open", data |-> <<>>]
    ELSE IF t.localConnection.channel # "open"
    THEN [threw |-> "InvalidStateError", data |-> <<>>]
    ELSE [threw |-> Nothing, data |-> <<value>>]

\* WebRTCCommunicator.close(): the data channel, the connection and the socket
close(t) ==
    [t EXCEPT !.localConnection.closed = TRUE,
              !.localConnection.channel = IF @ = "none" THEN @ ELSE "closed",
              !.localConnection.negotiationneeded = FALSE,
              !.socket = "CLOSED"]

\* the callback connect.tsx gives ready(): it runs once the handler that resolved
\* the promise has returned, and calls request()
ThenRequest(before, r) ==
    IF before.resolved \/ ~r.t.resolved \/ r.t.readyListeners = <<>> THEN r
    ELSE LET s == send(r.t, JSONStringify(Request))
         IN  Result(r.t, r.out, r.data \o s.data, "request", s.threw)

\* parse.event of a parsed message
EventTag(value) == IF "event" \in DOMAIN value THEN value.event ELSE "undefined"

\* the listener MikordleChat registers on the communicator: the text is parsed and
\* handed to the listeners of its event; whatever is raised on the way is caught
\* and logged.  The listener of 'close' is Connect's, the others are the component's
onData(s, h, communicator, validWords, data) ==
    LET parse == JSONParse(data)
    IN  IF parse.threw THEN Handled(s, h, <<>>, "invalid message", FALSE)
        ELSE LET event == EventTag(parse.value)
             IN  CASE event = "key-pressed" ->
                          onKeyPressed(s, h, communicator, validWords, parse.value.value)
                   [] event = "key-removed" ->
                          onKeyRemoved(s, h, communicator, validWords)
                   [] event = "enter-pressed" ->
                          onEnterPressed(s, h, communicator, validWords)
                   [] event = "initialise" -> onInitialise(s, h, parse.value.value)
                   [] event = "request" -> onRequest(s, h)
                   [] event = "close" -> Handled(s, h, <<>>, "close", FALSE)
                   [] OTHER -> Handled(s, h, <<>>, "recv", FALSE)

\* the listener of 'close' that sends a close of its own first
onCloseEchoes(t) ==
    LET s == send(t, JSONStringify(Close))
    IN  Result(close([t EXCEPT !.open = "closed"]), <<>>, s.data, "close", Nothing)

\* the listener Connect registers on 'close': setOpen('closed'), onSet(undefined),
\* comm.close()
onClose(t) ==
    Result(close([t EXCEPT !.open = "closed"]), <<>>, <<>>, "close", Nothing)

\* onClick of the close control: onSet(undefined), setOpen('closed'), emitClose(),
\* close(); what emitClose raises ends the handler
onClick(t) ==
    LET shut == [t EXCEPT !.open = "closed"]
        s == send(shut, JSONStringify(Close))
    IN  IF s.threw # Nothing THEN Result(shut, <<>>, <<>>, "emitClose", s.threw)
        ELSE Result(close(shut), <<>>, s.data, "close", Nothing)

(* the relay *)

\* the relay takes the envelopes socket p sent, one after the other: a _subscribe
\* adds the socket to the channel, any other envelope goes to the other sockets
\* subscribed then, and to none when there is none
RECURSIVE Route(_, _, _)
Route(server, p, out) ==
    IF out = <<>> THEN server
    ELSE LET envelope == JSONParse(Head(out)).value
             next == IF envelope.topic = "_subscribe"
                     THEN [server EXCEPT !.subscribers = @ \cup {p}]
                     ELSE [server EXCEPT !.inbox =
                              [q \in Peers |-> IF q # p /\ q \in server.subscribers
                                               THEN Append(@[q], Head(out)) ELSE @[q]]]
         IN  Route(next, p, Tail(out))

\* payloads that reach a socket and are not the other peer's: a text that is not
\* JSON, a diagnostic of the relay that carries an init, an envelope whose message
\* is not JSON, negotiation messages without type or without raw, and the message
\* null
SocketNoise ==
    [text |-> NotJSON,
     system |-> JSONStringify([topic |-> "_system", message |-> JSONStringify(InitMessage),
                               id |-> 0]),
     message |-> JSONStringify([topic |-> ChannelId, message |-> NotJSON, id |-> 0]),
     notype |-> Envelope(ChannelId, [raw |-> Empty], 0),
     noraw |-> Envelope(ChannelId, [type |-> "init"], 0),
     null |-> Envelope(ChannelId, Null, 0)]

\* texts that reach a data channel and are no message of MikordleChat: a text that
\* is not JSON, and an event MikordleChat does not know
ChannelNoise ==
    [text |-> NotJSON,
     unknown |-> JSONStringify([event |-> "ping"])]

(* the runs of the transport *)

\* a component with props.communicator and the sets of listeners it has registered,
\* on a render with the communicator given: on a change to a communicator the five
\* listeners are registered on it; nothing is taken off the one held before, on a
\* change to another as on a change to none
shouldComponentUpdate(component, communicator) ==
    IF component.communicator = communicator THEN component
    ELSE [component EXCEPT !.communicator = communicator,
                           !.listeners = IF communicator # "undefined" THEN @ + 1 ELSE @]

\* the leader has typed a letter, the joiner nothing; both have pressed the button
\* of their role, Connect has constructed the MikordleChat and handed it to the
\* component, which has registered its listeners.  The joiner waits on ready() to
\* send its request; `waiting` is what waits on the leader's ready()
Transport(waiting) ==
    /\ props = SessionProps
    /\ harness = [driver |-> "transport", typeable |-> {}, typists |-> {}]
    /\ state = InitialState([SessionProps EXCEPT !.words = <<>>])
    /\ instance = [rows |-> InstanceAddr, complete |-> Incomplete, target |-> <<>>]
    /\ heap = [a \in Addresses |-> <<>>]
    /\ call = "constructor"
    /\ threw = Nothing
    /\ peers = [p \in Peers |->
                   LET played == Played(IF p = "leader" THEN <<KeyOf("A")>> ELSE <<>>)
                   IN  shouldComponentUpdate(
                           [state |-> played.state, heap |-> played.heap,
                            communicator |-> "undefined", pressed |-> 0, listeners |-> 0],
                           "set")]
    /\ wire = [p \in Peers |-> <<>>]
    /\ actor = [peer |-> "none", on |-> "mount", e |-> <<>>]
    /\ transport = [p \in Peers |->
                       Constructed(p, IF p = "joiner" THEN <<"request">> ELSE waiting)]
    /\ relay = [subscribers |-> {}, inbox |-> [p \in Peers |-> <<>>], noise |-> <<>>]
    /\ home = <<>>

\* the leader's ready() has no waiter, as in connect.tsx, or one like the joiner's
TransportInit == \E waiting \in {<<>>, <<"request">>} : Transport(waiting)

\* a handler of peer p has run on `on` and left r; `server`, `channel` and `game`
\* are the relay, the data channel and the components as the event leaves them
Took(p, r, on, e, server, channel, game) ==
    /\ transport' = [transport EXCEPT ![p] = [r.t EXCEPT !.sent = @ \o r.out]]
    /\ relay' = Route(IF r.t.socket = "CLOSED"
                      THEN [server EXCEPT !.subscribers = @ \ {p}] ELSE server,
                      p, r.out)
    /\ wire' = [channel EXCEPT ![Other(p)] = @ \o r.data]
    /\ peers' = game
    /\ actor' = [peer |-> p, on |-> on, e |-> e]
    /\ call' = r.call
    /\ threw' = r.threw
    /\ UNCHANGED <<home, props, harness, state, instance, heap>>

Transporting == harness.driver = "transport"

\* the socket of p opens
SocketOpen ==
    \E p \in Peers :
        /\ Transporting
        /\ transport[p].socket = "CONNECTING"
        /\ Took(p, onopen(transport[p]), "open", <<>>, relay, wire, peers)

\* the socket of p is handed the oldest envelope the relay holds for it
SocketMessage ==
    \E p \in Peers :
        /\ Transporting
        /\ transport[p].socket = "OPEN"
        /\ relay.inbox[p] # <<>>
        /\ Took(p, ThenRequest(transport[p], onmessage(transport[p], Head(relay.inbox[p]))),
                "signal", Head(relay.inbox[p]),
                [relay EXCEPT !.inbox[p] = Tail(@)], wire, peers)

\* the connection of p asks for a negotiation, after createDataChannel
NegotiationNeeded ==
    \E p \in Peers :
        /\ Transporting
        /\ ~transport[p].localConnection.closed
        /\ transport[p].localConnection.negotiationneeded
        /\ Took(p, onnegotiationneeded(transport[p]), "negotiationneeded", <<>>,
                relay, wire, peers)

\* the connection of p, its local description set, finds a candidate, and then no more
IceCandidate ==
    \E p \in Peers :
        /\ Transporting
        /\ ~transport[p].localConnection.closed
        /\ transport[p].localConnection.gathering \in {"gathering", "gathered"}
        /\ LET found == transport[p].localConnection.gathering = "gathering"
               t == [transport[p] EXCEPT !.localConnection.gathering =
                                             IF found THEN "gathered" ELSE "complete"]
           IN  Took(p, onicecandidate(t, IF found THEN p ELSE "null"), "icecandidate",
                    <<>>, relay, wire, peers)

\* the two connections can reach each other: one holds its offer and the other's
\* answer, the other the reverse, and a candidate has crossed
Connectivity ==
    \E p \in Peers :
        LET a == transport[p].localConnection
            b == transport[Other(p)].localConnection
        IN  /\ ~a.closed /\ ~b.closed
            /\ a.localDescription = "offer" /\ a.remoteDescription = "answer"
            /\ b.remoteDescription = "offer" /\ b.localDescription = "answer"
            /\ a.candidates \cup b.candidates # {}

\* the channel p created reports open
DataChannelOpen ==
    \E p \in Peers :
        /\ Transporting
        /\ Connectivity
        /\ transport[p].localConnection.channel = "connecting"
        /\ Took(p, ondatachannelopen([transport[p] EXCEPT !.localConnection.channel = "open"]),
                "channelopen", <<>>, relay, wire, peers)

\* the channel the other side created is announced to p, open
DataChannelEvent ==
    \E p \in Peers :
        /\ Transporting
        /\ Connectivity
        /\ transport[p].localConnection.channel = "none"
        /\ transport[Other(p)].localConnection.channel \in {"connecting", "open"}
        /\ LET t == [transport[p] EXCEPT !.localConnection.channel = "open"]
           IN  Took(p, ThenRequest(transport[p], ondatachannel(t)), "datachannel", <<>>,
                    relay, wire, peers)

\* what the listeners of the component send in reply: the texts send puts on the
\* data channel; what send raises is caught by MikordleChat
Replies(t, messages) ==
    IF messages = <<>> THEN <<>> ELSE send(t, JSONStringify(messages[1])).data

\* MikordleChat has handed the oldest text of the data channel of p to its
\* listeners, which left g; the listener of 'close' is Connect's
Heard(p, g) ==
    /\ transport' = [transport EXCEPT ![p] = IF g.call = "close" THEN onClose(@).t ELSE @]
    /\ relay' = IF transport'[p].socket = "CLOSED"
                THEN [relay EXCEPT !.subscribers = @ \ {p}] ELSE relay
    /\ wire' = [wire EXCEPT ![p] = Tail(@),
                            ![Other(p)] = @ \o IF g.call = "close"
                                               THEN onClose(transport[p]).data
                                               ELSE Replies(transport[p], g.sent)]
    /\ peers' = [peers EXCEPT ![p] =
                    shouldComponentUpdate([peers[p] EXCEPT !.state = g.state,
                                                           !.heap = g.heap],
                                          IF g.call = "close" THEN "undefined"
                                          ELSE peers[p].communicator)]
    /\ actor' = [peer |-> p, on |-> "message", e |-> Head(wire[p])]
    /\ call' = g.call
    /\ threw' = Nothing
    /\ UNCHANGED <<home, props, harness, state, instance, heap>>

\* the data channel of p hands over its oldest text
ChannelMessage ==
    \E p \in Peers :
        /\ Transporting
        /\ transport[p].localConnection.channel = "open"
        /\ wire[p] # <<>>
        /\ \E g \in {onData(peers[p].state, peers[p].heap, peers[p].communicator,
                            props.validWords, Head(wire[p]))} :
              Heard(p, IF peers[p].listeners > 0 \/ g.call = "close" THEN g
                       ELSE Handled(peers[p].state, peers[p].heap, <<>>, "recv", FALSE))

\* the user of p clicks the close control of Connect
Click ==
    \E p \in Peers :
        /\ Transporting
        /\ transport[p].open \in {"leader", "joiner"}
        /\ Took(p, onClick(transport[p]), "click", <<>>, relay, wire,
                [peers EXCEPT ![p] = shouldComponentUpdate(@, "undefined")])

\* a payload that is not the other peer's reaches the socket of p
NoiseToSocket ==
    \E p \in Peers : \E kind \in DOMAIN SocketNoise :
        /\ Transporting
        /\ Len(relay.noise) < MaxNoise
        /\ p \in relay.subscribers
        /\ relay' = [relay EXCEPT !.inbox[p] = Append(@, SocketNoise[kind]),
                                  !.noise = Append(@, [peer |-> p, via |-> "socket",
                                                       kind |-> kind])]
        /\ actor' = [peer |-> p, on |-> "noise", e |-> SocketNoise[kind]]
        /\ call' = "noise"
        /\ threw' = Nothing
        /\ UNCHANGED <<home, props, harness, state, instance, heap, peers, wire, transport>>

\* a text that is no message of MikordleChat reaches the data channel of p
NoiseToChannel ==
    \E p \in Peers : \E kind \in DOMAIN ChannelNoise :
        /\ Transporting
        /\ Len(relay.noise) < MaxNoise
        /\ transport[p].localConnection.channel = "open"
        /\ wire' = [wire EXCEPT ![p] = Append(@, ChannelNoise[kind])]
        /\ relay' = [relay EXCEPT !.noise = Append(@, [peer |-> p, via |-> "channel",
                                                       kind |-> kind])]
        /\ actor' = [peer |-> p, on |-> "noise", e |-> ChannelNoise[kind]]
        /\ call' = "noise"
        /\ threw' = Nothing
        /\ UNCHANGED <<home, props, harness, state, instance, heap, peers, transport>>

TransportNext ==
    \/ SocketOpen
    \/ SocketMessage
    \/ NegotiationNeeded
    \/ IceCandidate
    \/ DataChannelOpen
    \/ DataChannelEvent
    \/ ChannelMessage
    \/ Click

SpecTransport == TransportInit /\ [][TransportNext]_vars

\* a third WebRTCCommunicator constructed on the key of the session sends its init,
\* the envelope the joiner's is: the relay hands it to the sockets subscribed
ThirdPeerInit ==
    /\ Transporting
    /\ Len(relay.noise) < MaxNoise
    /\ relay.subscribers # {}
    /\ relay' = [relay EXCEPT
                    !.inbox = [q \in Peers |->
                                  IF q \in relay.subscribers
                                  THEN Append(@[q], Envelope(ChannelId, InitMessage, 1))
                                  ELSE @[q]],
                    !.noise = Append(@, [peer |-> "third", via |-> "socket",
                                         kind |-> "init"])]
    /\ actor' = [peer |-> "third", on |-> "noise", e |-> Envelope(ChannelId, InitMessage, 1)]
    /\ call' = "noise"
    /\ threw' = Nothing
    /\ UNCHANGED <<home, props, harness, state, instance, heap, peers, wire, transport>>

(* Connect from its first render on *)

\* no join code: prompt() returned null
NoCode == "null"

\* Connect before any session: closed, its `communicator` state undefined; there is
\* no MikordleChat, so no socket and no connection that could act
Unset(role) ==
    [Constructed(role, <<>>) EXCEPT !.open = "closed", !.communicator = "undefined",
                                    !.socket = "NONE"]

\* the body of Connect rendered with open = role: a MikordleChat is constructed, and
\* handed to onSet, only while the `communicator` state is undefined; the joiner is
\* prompted for the code first, and goes back to the menu without one
Render(t, role, code) ==
    IF t.communicator # "undefined"
    THEN Result([t EXCEPT !.open = role], <<>>, <<>>, "render", Nothing)
    ELSE IF role = "joiner" /\ code = NoCode
    THEN Result([t EXCEPT !.open = "open"], <<>>, <<>>, "setOpen", Nothing)
    ELSE Result(Constructed(role, IF role = "joiner" THEN <<"request">> ELSE <<>>),
                <<>>, <<>>, "onSet", Nothing)

\* onClick of the closed Connect: setOpen('open')
ClosedClick ==
    \E p \in Peers :
        /\ Transporting
        /\ transport[p].open = "closed"
        /\ Took(p, Result([transport[p] EXCEPT !.open = "open"], <<>>, <<>>, "setOpen",
                          Nothing),
                "click", <<>>, relay, wire, peers)

\* onClick of the menu, off its buttons: setOpen('closed')
MenuClick ==
    \E p \in Peers :
        /\ Transporting
        /\ transport[p].open = "open"
        /\ Took(p, Result([transport[p] EXCEPT !.open = "closed"], <<>>, <<>>, "setOpen",
                          Nothing),
                "click", <<>>, relay, wire, peers)

\* Create Session or Join Session: setOpen(role), and Connect renders.  The first
\* session of a peer is the one of its name; the code typed, if any, is the key
ButtonClick ==
    \E p \in Peers : \E role \in {"leader", "joiner"} : \E code \in {ChannelId, NoCode} :
        /\ Transporting
        /\ transport[p].open = "open"
        /\ transport[p].communicator = "undefined" => role = p
        /\ (transport[p].communicator # "undefined" \/ role = "leader") => code = ChannelId
        /\ Took(p, Render(transport[p], role, code), "choose", <<>>, relay, wire,
                [peers EXCEPT ![p] =
                    IF Render(transport[p], role, code).call = "onSet"
                    THEN shouldComponentUpdate(@, "set") ELSE @])

\* the two components mounted, the leader's user having typed a letter, and the
\* Connect of each closed
ReopenInit ==
    /\ props = SessionProps
    /\ harness = [driver |-> "transport", typeable |-> {}, typists |-> {}]
    /\ state = InitialState([SessionProps EXCEPT !.words = <<>>])
    /\ instance = [rows |-> InstanceAddr, complete |-> Incomplete, target |-> <<>>]
    /\ heap = [a \in Addresses |-> <<>>]
    /\ call = "constructor"
    /\ threw = Nothing
    /\ peers = [p \in Peers |->
                   [state |-> Played(IF p = "leader" THEN <<KeyOf("A")>> ELSE <<>>).state,
                    heap |-> Played(IF p = "leader" THEN <<KeyOf("A")>> ELSE <<>>).heap,
                    communicator |-> "undefined", pressed |-> 0, listeners |-> 0]]
    /\ wire = [p \in Peers |-> <<>>]
    /\ actor = [peer |-> "none", on |-> "mount", e |-> <<>>]
    /\ transport = [p \in Peers |-> Unset(p)]
    /\ relay = [subscribers |-> {}, inbox |-> [p \in Peers |-> <<>>], noise |-> <<>>]
    /\ home = <<>>

ReopenNext ==
    \/ ClosedClick
    \/ MenuClick
    \/ ButtonClick
    \/ SocketOpen
    \/ SocketMessage
    \/ NegotiationNeeded
    \/ IceCandidate
    \/ DataChannelOpen
    \/ DataChannelEvent
    \/ ChannelMessage
    \/ Click

SpecReopen == ReopenInit /\ [][ReopenNext]_vars

\* the two peers as connect.tsx sets them up, and a third peer that joins on the key
ThirdInit == Transport(<<>>)

ThirdNext ==
    \/ SocketOpen
    \/ SocketMessage
    \/ NegotiationNeeded
    \/ IceCandidate
    \/ DataChannelOpen
    \/ DataChannelEvent
    \/ ChannelMessage
    \/ ThirdPeerInit

SpecThird == ThirdInit /\ [][ThirdNext]_vars

\* the two peers as connect.tsx sets them up, no user at the close control, and
\* payloads from elsewhere on the sockets and the data channels
NoiseInit == Transport(<<>>)

NoiseNext ==
    \/ SocketOpen
    \/ SocketMessage
    \/ NegotiationNeeded
    \/ IceCandidate
    \/ DataChannelOpen
    \/ DataChannelEvent
    \/ ChannelMessage
    \/ NoiseToSocket
    \/ NoiseToChannel

SpecNoise == NoiseInit /\ [][NoiseNext]_vars

(* the keys of a user whose component holds a communicator *)

\* the updater applying the key before it calls the communicator
keydownApplyFirst(s, h, t, communicator, validWords, e) ==
    IF NotAKey(e) \/ s.type # "GameState" \/ ~Broadcasts(communicator, FALSE)
    THEN [onKey(s, h, communicator, validWords, e, FALSE) EXCEPT !.threw = Nothing]
    ELSE IF send(t, JSONStringify(Broadcast(e))).threw # Nothing
    THEN [state |-> s, heap |-> onKey(s, h, communicator, validWords, e, FALSE).heap,
          sent |-> <<>>, call |-> "send",
          threw |-> send(t, JSONStringify(Broadcast(e))).threw]
    ELSE [onKey(s, h, communicator, validWords, e, FALSE) EXCEPT
             !.sent = send(t, JSONStringify(Broadcast(e))).data, !.threw = Nothing]

\* onKey(e) on a component whose communicator sends through t: the updater handed to
\* setState calls keyPressed, keyRemoved or enterPressed first and applies the key
\* after; what send raises ends the updater, and setState assigns nothing
keydown(s, h, t, communicator, validWords, e) ==
    IF NotAKey(e) \/ s.type # "GameState" \/ ~Broadcasts(communicator, FALSE)
    THEN [onKey(s, h, communicator, validWords, e, FALSE) EXCEPT !.threw = Nothing]
    ELSE IF send(t, JSONStringify(Broadcast(e))).threw # Nothing
    THEN [state |-> s, heap |-> h, sent |-> <<>>, call |-> "send",
          threw |-> send(t, JSONStringify(Broadcast(e))).threw]
    ELSE [onKey(s, h, communicator, validWords, e, FALSE) EXCEPT
             !.sent = send(t, JSONStringify(Broadcast(e))).data, !.threw = Nothing]

\* the keys the two users press in a typing run, at most
MaxTyped == 2

\* the keys of the typing runs: A with shift, b without, backspace and enter
TypingEvents == SessionLetterEvents \cup {Backspace, Enter}

\* onKey has run on key e of the user of p and left g
Typed(p, g, e) ==
    /\ peers' = [peers EXCEPT ![p].state = g.state, ![p].heap = g.heap,
                              ![p].pressed = @ + 1]
    /\ wire' = [wire EXCEPT ![Other(p)] = @ \o g.sent]
    /\ actor' = [peer |-> p, on |-> "keydown", e |-> e]
    /\ call' = g.call
    /\ threw' = g.threw
    /\ UNCHANGED <<home, props, harness, state, instance, heap, transport, relay>>

\* the user of p presses a key, at any point of the handshake
TypingKeyDown ==
    \E p \in Peers : \E e \in TypingEvents :
        /\ Transporting
        /\ peers["leader"].pressed + peers["joiner"].pressed < MaxTyped
        /\ \E g \in {keydown(peers[p].state, peers[p].heap, transport[p],
                             peers[p].communicator, props.validWords, e)} :
              Typed(p, g, e)

\* the two peers as connect.tsx sets them up, their users at the keys from the start
TypingInit == Transport(<<>>)

TypingNext ==
    \/ SocketOpen
    \/ SocketMessage
    \/ NegotiationNeeded
    \/ IceCandidate
    \/ DataChannelOpen
    \/ DataChannelEvent
    \/ ChannelMessage
    \/ TypingKeyDown

SpecTyping == TypingInit /\ [][TypingNext]_vars

-----------------------------------------------------------------------------
(* The route: Home mounts AutoSelectMikordle, which loads the words and mounts *)
(* Mikordle; the game ends through Mikordle.end and the onEnd it is given     *)

Quarters == 4       \* the values the random stream yields: 0, 1/Quarters, ..., in [0, 1)
MaxEnded == 2       \* calls of onEnd in a run, at most

\* the stage tables of the route; index 0 of the source is position 1
mapping == <<1, 2, 4, 8, 16, 32>>
columns == <<1, 2, 2, 2, 2, 4>>
guesses == <<6, 7, 9, 13, 21, 37>>

\* the elements of todaysWords a stage reads: 2^stage of them, from 2^stage - 1 on
stageLookup(stage) == [i \in 1..mapping[stage + 1] |-> mapping[stage + 1] - 2 + i]

\* the stages the runs play: those with no more boards than the bound
Stages == {s \in 0..(Len(mapping) - 1) : mapping[s + 1] <= MaxBoards}

\* the module-level stream once the module is loaded: used for todaysWords, then
\* cleared
rand == "undefined"

\* Math.round(x * n) for x = k / Quarters: the nearest integer, halves upwards
Round(k, n) == (2 * k * n + Quarters) \div (2 * Quarters)

\* loaded[index], no word when the index is outside the array
At(loaded, index) == IF index + 1 \in DOMAIN loaded THEN loaded[index + 1] ELSE <<>>

\* loaded.splice(index, 1); a negative index counts from the end
Splice(loaded, index) ==
    IF index + 1 \in DOMAIN loaded
    THEN SubSeq(loaded, 1, index) \o SubSeq(loaded, index + 2, Len(loaded))
    ELSE IF index < 0 /\ Len(loaded) + index + 1 \in DOMAIN loaded
    THEN SubSeq(loaded, 1, Len(loaded) + index)
         \o SubSeq(loaded, Len(loaded) + index + 2, Len(loaded))
    ELSE loaded

\* the branch of fetch for today's words: one word for each element of the stage
RECURSIVE SelectToday(_, _, _)
SelectToday(es, loaded, todaysWords) ==
    IF es = <<>> THEN <<>>
    ELSE <<At(loaded, Round(todaysWords[Head(es) + 1], Len(loaded) - 1))>>
         \o SelectToday(Tail(es),
                        Splice(loaded, Round(todaysWords[Head(es) + 1], Len(loaded) - 1)),
                        todaysWords)

\* the other branch of fetch: `amount` turns of the loop, each drawing from rand
\* when there is one; draws[i] is what rand() would yield in turn i
RECURSIVE SelectRandom(_, _, _, _)
SelectRandom(i, amount, loaded, draws) ==
    IF i > amount THEN [selected |-> <<>>, threw |-> Nothing]
    ELSE IF rand = "undefined" THEN [selected |-> <<>>, threw |-> "Ran out of words"]
    ELSE [selected |-> <<At(loaded, Round(draws[i], Len(loaded) - 1))>>
                       \o SelectRandom(i + 1, amount,
                                       Splice(loaded, Round(draws[i], Len(loaded) - 1)),
                                       draws).selected,
          threw |-> SelectRandom(i + 1, amount,
                                 Splice(loaded, Round(draws[i], Len(loaded) - 1)),
                                 draws).threw]

\* fetch and its catch: the value setWords is given
fetch(auto, list, todaysWords, draws) ==
    IF auto.useToday
    THEN [kind |-> "tuple", clone |-> list,
          selected |-> SelectToday(stageLookup(auto.stage), list, todaysWords)]
    ELSE IF SelectRandom(1, auto.amount, list, draws).threw # Nothing
    THEN [kind |-> "Error", message |-> SelectRandom(1, auto.amount, list, draws).threw]
    ELSE [kind |-> "tuple", clone |-> list,
          selected |-> SelectRandom(1, auto.amount, list, draws).selected]

\* the props AutoSelectMikordle hands to Mikordle
MikordleProps(auto, words) ==
    [letterCount |-> auto.length, guessesAllowed |-> auto.guesses, columns |-> auto.columns,
     words |-> words, validWords |-> Range(auto.list),
     onEnd |-> auto.onEnd, continuing |-> auto.continuing]

\* the props Home hands to Auto at a stage, with the list getWords resolves to; the
\* runs keep the word length and the guesses of a stage within the bounds
AutoOfHome(stage, list) ==
    [length |-> SessionWidth,
     guesses |-> IF guesses[stage + 1] <= MaxGuesses THEN guesses[stage + 1] ELSE MaxGuesses,
     columns |-> columns[stage + 1], amount |-> mapping[stage + 1],
     onEnd |-> "supplied", continuing |-> TRUE, useToday |-> TRUE, stage |-> stage,
     list |-> list]

\* the word lists getWords may resolve to: the words of Pool in order, and the same
\* list with its first word in the place of the second or of the third
PoolList(n) ==
    <<CHOOSE w \in Pool(n) : \A i \in 1..n : w[i] = "A",
      CHOOSE w \in Pool(n) : \A i \in 1..n : w[i] = (IF i = 1 THEN "A" ELSE "B"),
      CHOOSE w \in Pool(n) : \A i \in 1..n : w[i] = (IF i = n THEN "A" ELSE "B")>>
WordLists(n) == {PoolList(n), [PoolList(n) EXCEPT ![2] = PoolList(n)[1]],
                 [PoolList(n) EXCEPT ![3] = PoolList(n)[1]]}

\* the mounts of the runs: Home at a stage it read from local storage, and
\* AutoSelectMikordle with props of its own
HomeMounts ==
    {[root |-> "Home", stage |-> s, auto |-> AutoOfHome(s, l)] :
        s \in Stages, l \in WordLists(SessionWidth)}
AutoMounts ==
    {[root |-> "Auto", stage |-> s,
      auto |-> [AutoOfHome(s, l) EXCEPT !.onEnd = e, !.continuing = c, !.guesses = g]] :
        s \in Stages, l \in WordLists(SessionWidth), e \in {"undefined", "supplied"},
        c \in BOOLEAN, g \in 1..MaxGuesses}
    \cup {[root |-> "Auto", stage |-> 0,
           auto |-> [AutoOfHome(0, l) EXCEPT !.onEnd = e, !.continuing = c,
                                             !.amount = a, !.useToday = FALSE]] :
            l \in WordLists(SessionWidth), e \in {"undefined", "supplied"},
            c \in BOOLEAN, a \in 1..MaxBoards}

\* the numbers of todaysWords the stages of the runs read, as counts of 1/Quarters
TodaysWords == [1..(2 * mapping[Cardinality(Stages)] - 1) -> 0..(Quarters - 1)]

HomeInit ==
    \E m \in HomeMounts \cup AutoMounts : \E t \in TodaysWords :
        /\ home = [root |-> m.root, stage |-> m.stage, finished |-> FALSE, auto |-> m.auto,
                   todaysWords |-> t, words |-> [kind |-> "undefined"], mounted |-> FALSE,
                   ended |-> <<>>, metrics |-> <<>>, copyStats |-> <<>>]
        /\ props = MikordleProps(m.auto, <<>>)
        /\ harness = [driver |-> "home", typeable |-> Range(m.auto.list) \cup {AllB(m.auto.length)}]
        /\ state = InitialState(MikordleProps(m.auto, <<>>))
        /\ instance = [rows |-> InstanceAddr, complete |-> Incomplete, target |-> <<>>]
        /\ heap = [a \in Addresses |-> <<>>]
        /\ call = "constructor"
        /\ threw = FALSE
        /\ peers = <<>>
        /\ wire = <<>>
        /\ actor = [peer |-> "none", on |-> "mount", e |-> <<>>]
        /\ transport = <<>>
        /\ relay = <<>>

\* the effect of AutoSelectMikordle has run: setWords with what fetch gave, and with
\* a tuple of words Mikordle is mounted on them
Fetch ==
    /\ harness.driver = "home"
    /\ ~home.finished /\ home.words.kind = "undefined"
    /\ home.stage \in Stages
    /\ \E draws \in [1..home.auto.amount -> 0..(Quarters - 1)] :
       \E w \in {fetch(home.auto, home.auto.list, home.todaysWords, draws)} :
          /\ home' = [home EXCEPT !.words = w, !.mounted = (w.kind = "tuple")]
          /\ props' = IF w.kind = "tuple" THEN MikordleProps(home.auto, w.selected) ELSE props
          /\ state' = IF w.kind = "tuple"
                      THEN InitialState(MikordleProps(home.auto, w.selected)) ELSE state
          /\ heap' = [a \in Addresses |-> <<>>]
    /\ call' = "fetch"
    /\ threw' = FALSE
    /\ UNCHANGED <<harness, instance, peers, wire, actor, transport, relay>>

\* the distribution end builds: guess count -> boards won with that many guesses
Distribution(records) ==
    [g \in {records[i].guesses : i \in {j \in DOMAIN records : records[j].won}} |->
        Cardinality({i \in DOMAIN records : records[i].won /\ records[i].guesses = g})]

\* the records by rows of `columns` boards; a row is pushed once it is full
Stats(records, cols) ==
    [r \in 1..(Len(records) \div cols) |-> SubSeq(records, (r - 1) * cols + 1, r * cols)]

\* Mikordle.end() on a component whose this.state is s: the calls of props.onEnd
end(s, p) ==
    IF s.type # "WinState" THEN <<>>
    ELSE IF p.onEnd = "undefined" THEN <<>>
    ELSE <<[losses |-> Cardinality({i \in DOMAIN s.records : ~s.records[i].won}),
            distribution |-> Distribution(s.records),
            stats |-> Stats(s.records, p.columns)]>>

\* the onEnd Home gives to Auto: the metrics, the next stage or the end of the day,
\* and the copy statistics; with the stage the key of Auto changes and it is
\* mounted anew
onEnd(hm, c) ==
    [hm EXCEPT
        !.metrics = Append(@, [boardGroupSize |-> mapping[hm.stage + 1],
                              winCount |-> Cardinality(DOMAIN c.distribution),
                              lossCount |-> c.losses,
                              distribution |-> c.distribution]),
        !.finished = (hm.stage + 2 \notin DOMAIN mapping),
        !.stage = IF hm.stage + 2 \in DOMAIN mapping THEN @ + 1 ELSE @,
        !.auto = IF hm.stage + 2 \in DOMAIN mapping /\ hm.stage + 1 \in Stages
                 THEN AutoOfHome(hm.stage + 1, hm.auto.list) ELSE @,
        !.words = [kind |-> "undefined"],
        !.mounted = FALSE,
        !.copyStats = Append(@, [board |-> hm.stage + 1, words |-> mapping[hm.stage + 1],
                                 stats |-> c.stats, guesses |-> guesses[hm.stage + 1]])]

\* the calls of props.onEnd made: each is recorded, and under Home its onEnd runs
Ended(hm, calls) ==
    IF calls = <<>> THEN hm
    ELSE IF hm.root = "Home" THEN onEnd([hm EXCEPT !.ended = @ \o calls], calls[1])
    ELSE [hm EXCEPT !.ended = @ \o calls]

\* the updater of the enter key as setState runs it on s, this.state not yet
\* replaced: the update and the calls of onEnd
enterUpdater(s, h, p) ==
    [update |-> onEnter(s, h, p.validWords),
     calls |-> IF /\ ~onEnter(s, h, p.validWords).threw
                  /\ onEnter(s, h, p.validWords).state.type = "WinState"
                  /\ ~p.continuing
               THEN end(s, p) ELSE <<>>]

\* a key of the user has run its updater and made the calls of onEnd given
Pressed(r, name, calls) ==
    /\ state' = SetState(state, r.state)
    /\ heap' = r.heap
    /\ threw' = r.threw
    /\ call' = name
    /\ home' = Ended(home, calls)
    /\ UNCHANGED <<props, harness, instance, peers, wire, actor, transport, relay>>

HomeKeyLetter ==
    /\ harness.driver = "home" /\ home.mounted
    /\ state.type = "GameState"
    /\ \E e \in SessionLetterEvents :
          /\ ToUpperCase(e.key) \in Typeable(state.activeGuess, props.letterCount)
          /\ \E r \in {addLetter(state, heap, ToUpperCase(e.key))} :
                Pressed(r, "addLetter", <<>>)

HomeKeyBackspace ==
    /\ harness.driver = "home" /\ home.mounted
    /\ state.type = "GameState"
    /\ \E r \in {removeLetter(state, heap)} : Pressed(r, "removeLetter", <<>>)

HomeKeyEnter ==
    /\ harness.driver = "home" /\ home.mounted
    /\ state.type = "GameState"
    /\ \E u \in {enterUpdater(state, heap, props)} : Pressed(u.update, "onEnter", u.calls)

\* the Continue button of the results: rendered for a WinState when props.continuing
Continue ==
    /\ harness.driver = "home" /\ home.mounted
    /\ state.type = "WinState" /\ props.continuing = TRUE
    /\ Len(home.ended) < MaxEnded
    /\ home' = Ended(home, end(state, props))
    /\ call' = "end"
    /\ threw' = FALSE
    /\ UNCHANGED <<props, harness, state, instance, heap, peers, wire, actor, transport,
                   relay>>

HomeNext ==
    \/ Fetch
    \/ HomeKeyLetter
    \/ HomeKeyBackspace
    \/ HomeKeyEnter
    \/ Continue

SpecHome == HomeInit /\ [][HomeNext]_vars

-----------------------------------------------------------------------------
(* What the properties observe *)

Evaluator == harness.driver = "evaluator"

\* the boards of the run, by index
BoardIds == IF Evaluator THEN {1} ELSE DOMAIN props.words

\* the rows array of board k
RowsOf(k) == IF Evaluator THEN heap[instance.rows] ELSE heap[k]

TargetOf(k) == props.words[k]

\* complete of board k; once the component holds a WinState the board objects are
\* gone and the record of the board tells which way it ended
CompleteOf(k) ==
    IF Evaluator THEN instance.complete
    ELSE IF state.type = "GameState" THEN state.states[k].complete
    ELSE IF state.records[k].won THEN "SUCCESS" ELSE "FAIL"

\* the rows of board k that enter has committed: all but the open row
CommittedRows(k) ==
    IF CompleteOf(k) = Incomplete
    THEN SubSeq(RowsOf(k), 1, Len(RowsOf(k)) - 1)
    ELSE RowsOf(k)

Spelled(row) == [i \in DOMAIN row.letter |-> row.letter[i].letter]
StatesOf(row) == [i \in DOMAIN row.letter |-> row.letter[i].state]
Credited(row, c) ==
    Cardinality({i \in DOMAIN row.letter :
                    row.letter[i].letter = c /\ row.letter[i].state \in {"MATCH", "POSITION"}})
Occurrences(word, c) == Cardinality({i \in DOMAIN word : word[i] = c})
Full(row) == Len(row.letter) = row.width /\ row.width > 0

\* this step is an enter that commits the open row of board k
EnterCommits(k) ==
    IF Evaluator
    THEN /\ call' = "enter"
         /\ instance.complete = Incomplete
         /\ Len(RowsOf(k)) > 0
         /\ Full(Last(RowsOf(k)))
    ELSE /\ call' = "onEnter"
         /\ state.type = "GameState"
         /\ Len(state.activeGuess) = state.letterCount
         /\ state.activeGuess \in props.validWords
         /\ state.states[k].complete = Incomplete

-----------------------------------------------------------------------------
(* The evaluation of a committed row *)

\* C1: in every committed row, position i is MATCH exactly when the letter guessed at i
\* is the letter of the target at i.
C1_MatchIffSameLetter ==
    \A k \in BoardIds : \A n \in DOMAIN CommittedRows(k) :
        LET row == CommittedRows(k)[n]
        IN  \A i \in DOMAIN row.letter :
                (row.letter[i].state = "MATCH") <=> (row.letter[i].letter = CharAt(TargetOf(k), i))

\* a committed row in which a letter is MATCH at a later position and the same letter,
\* guessed earlier, is INVALID: the target holds it once
C1_Witness ==
    \E k \in BoardIds : \E n \in DOMAIN CommittedRows(k) :
        LET row == CommittedRows(k)[n]
        IN  \E i, j \in DOMAIN row.letter :
                /\ i < j
                /\ row.letter[i].letter = row.letter[j].letter
                /\ row.letter[j].state = "MATCH"
                /\ row.letter[i].state = "INVALID"

\* C2: in every committed row, for every letter c, the positions holding c that are MATCH
\* or POSITION are no more than the occurrences of c in the target.
C2_NoDoubleCount ==
    \A k \in BoardIds : \A n \in DOMAIN CommittedRows(k) :
        LET row == CommittedRows(k)[n]
        IN  \A c \in Range(Spelled(row)) : Credited(row, c) <= Occurrences(TargetOf(k), c)

\* a committed row that guesses a letter twice off its place, the target holding it once:
\* one is POSITION, the other INVALID
C2_Witness ==
    \E k \in BoardIds : \E n \in DOMAIN CommittedRows(k) :
        LET row == CommittedRows(k)[n]
        IN  \E i, j \in DOMAIN row.letter :
                /\ i < j
                /\ row.letter[i].letter = row.letter[j].letter
                /\ row.letter[i].state = "POSITION"
                /\ row.letter[j].state = "INVALID"
                /\ Occurrences(TargetOf(k), row.letter[i].letter) = 1

\* the committed rows of the boards of target `target` that spell `guess`
RowsSpelling(target, guess) ==
    UNION {{row \in Range(CommittedRows(k)) : Spelled(row) = guess} :
              k \in {b \in BoardIds : TargetOf(b) = target}}

\* C3 as stated: target CRANE, committed guess TRACE gives
\* [Invalid, Match, Position, Position, Match].
C3_AsStated ==
    \A row \in RowsSpelling(CRANE, TRACE) :
        StatesOf(row) = <<"INVALID", "MATCH", "POSITION", "POSITION", "MATCH">>

\* C3, amended: target CRANE, committed guess TRACE gives
\* [Invalid, Match, Match, Position, Match]: the A stands at the same place in both words.
C3_CraneTrace ==
    \A row \in RowsSpelling(CRANE, TRACE) :
        StatesOf(row) = <<"INVALID", "MATCH", "MATCH", "POSITION", "MATCH">>

C3_Witness == RowsSpelling(CRANE, TRACE) # {}

\* C4: target ALLOW, committed guess LLAMA: at most 2 positions holding L and at most 1
\* position holding A are MATCH or POSITION.
C4_AllowLlama ==
    \A row \in RowsSpelling(ALLOW, LLAMA) :
        /\ Credited(row, "L") <= 2
        /\ Credited(row, "A") <= 1

C4_Witness ==
    \E row \in RowsSpelling(ALLOW, LLAMA) :
        /\ Credited(row, "L") = 2
        /\ Credited(row, "A") = 1
        /\ row.letter[5].state = "INVALID"

-----------------------------------------------------------------------------
(* Completion *)

\* C5: a board turns FAIL only in the step in which enter commits its guessesAllowed-th
\* row and that row is not all MATCH; an enter that commits a row that is not all MATCH
\* makes the board FAIL when the row is the guessesAllowed-th, and otherwise leaves it
\* incomplete with a new empty row appended; a FAIL board holds guessesAllowed rows.
C5_FailExactlyOnLastRow ==
    [][\A k \in BoardIds :
        LET before == RowsOf(k)
            after == RowsOf(k)'
        IN  /\ (CompleteOf(k) # "FAIL" /\ CompleteOf(k)' = "FAIL") =>
                   /\ EnterCommits(k)
                   /\ Len(before) = props.guessesAllowed
                   /\ ~AllMatch(Last(after).letter)
            /\ (EnterCommits(k) /\ ~AllMatch(after[Len(before)].letter)) =>
                   IF Len(before) = props.guessesAllowed
                   THEN CompleteOf(k)' = "FAIL" /\ Len(after) = Len(before)
                   ELSE /\ CompleteOf(k)' = Incomplete
                        /\ Len(after) = Len(before) + 1
                        /\ Last(after) = NewRow(props.letterCount)
            /\ (CompleteOf(k)' = "FAIL") =>
                   /\ Len(after) = props.guessesAllowed
                   /\ \A n \in DOMAIN after : Full(after[n]) /\ ~AllMatch(after[n].letter)
      ]_vars

\* a board that failed on its second row
C5_Witness ==
    \E k \in BoardIds :
        /\ CompleteOf(k) = "FAIL"
        /\ Len(RowsOf(k)) = props.guessesAllowed
        /\ props.guessesAllowed > 1
        /\ call \in {"enter", "onEnter"}

\* C6: a row that is all MATCH is the last row of its board and the board is SUCCESS,
\* whatever the number of rows, the guessesAllowed-th included.
C6_SuccessOnAllMatch ==
    \A k \in BoardIds : \A n \in DOMAIN RowsOf(k) :
        (Full(RowsOf(k)[n]) /\ AllMatch(RowsOf(k)[n].letter)) =>
            /\ CompleteOf(k) = "SUCCESS"
            /\ n = Len(RowsOf(k))

\* a board won on its last allowed row, which is not its first
C6_Witness ==
    \E k \in BoardIds :
        /\ CompleteOf(k) = "SUCCESS"
        /\ Len(RowsOf(k)) = props.guessesAllowed
        /\ props.guessesAllowed > 1
        /\ AllMatch(Last(RowsOf(k)).letter)

\* C7: no step changes a board that is SUCCESS or FAIL: its object (target, complete, the
\* address of its rows) and its rows array stay as they are; when the component turns to
\* a WinState the record of the board is the one of the board as it was.
C7_CompleteIsTerminal ==
    [][/\ (Evaluator /\ instance.complete # Incomplete) =>
              /\ instance' = instance
              /\ heap'[instance.rows] = heap[instance.rows]
       /\ (~Evaluator /\ state.type = "GameState") =>
              \A k \in DOMAIN state.states :
                  state.states[k].complete # Incomplete =>
                      /\ heap'[state.states[k].rows] = heap[state.states[k].rows]
                      /\ state'.type = "GameState" => state'.states[k] = state.states[k]
                      /\ state'.type = "WinState" =>
                             state'.records[k] = Record(state.states[k], heap)
      ]_vars

\* a game in which onEnter committed a row on one board after another board was won,
\* or the evaluator's remove was called on a complete board
C7_Witness ==
    \/ /\ ~Evaluator
       /\ call = "onEnter"
       /\ \E k, j \in BoardIds :
             /\ CompleteOf(k) = "SUCCESS"
             /\ Len(RowsOf(j)) > Len(RowsOf(k))
    \/ /\ Evaluator
       /\ call = "remove"
       /\ instance.complete # Incomplete

-----------------------------------------------------------------------------
(* Round trip, no-op and copy-on-write *)

\* the open row of every incomplete board of GameState s, by board index
OpenRows(s, h) ==
    [k \in DOMAIN s.states |->
        IF s.states[k].complete = Incomplete THEN OpenLetters(s.states[k], h) ELSE <<>>]

\* this step is an add-letter on an incomplete board (evaluator) or on a GameState, and
\* remove-letter applied to what it leaves gives back the letters of the open rows
RoundTrip ==
    /\ (Evaluator /\ call' = "add" /\ instance.complete = Incomplete) =>
           OpenLetters(instance', remove(instance', heap').heap) = OpenLetters(instance, heap)
    /\ (~Evaluator /\ call' = "addLetter") =>
           LET r == removeLetter(state', heap')
           IN  /\ OpenRows(r.state, r.heap) = OpenRows(state, heap)
               /\ r.state.activeGuess = state.activeGuess

\* the fill level of the open rows before the step is below the width
RoomLeft ==
    IF Evaluator THEN Len(OpenLetters(instance, heap)) < props.letterCount
    ELSE state.type = "GameState" /\ Len(state.activeGuess) < state.letterCount

\* C8 as stated: at every fill level of the open row, full included, add-letter then
\* remove-letter leaves the letters of the open row as they were.
C8_AsStated == [][RoundTrip]_vars

\* C8, amended: at every fill level of the open row below the width (a board with no
\* rows included), add-letter then remove-letter leaves the letters of the open row as
\* they were.
C8_RoundTripBelowWidth == [][RoomLeft => RoundTrip]_vars

\* add-letter has just put the first letter on a board that had no row or an empty row
C8_Witness ==
    \/ /\ Evaluator
       /\ call = "add"
       /\ instance.complete = Incomplete
       /\ Len(OpenLetters(instance, heap)) = 1
       /\ props.letterCount > 1
    \/ /\ ~Evaluator
       /\ call = "addLetter"
       /\ state.type = "GameState"
       /\ Len(state.activeGuess) = 1

\* C9 as stated: enter on an incomplete board whose current guess holds fewer than width
\* letters (none included) raises no error and changes nothing.
C9_AsStated ==
    [][/\ (Evaluator /\ call' = "enter" /\ instance.complete = Incomplete
              /\ Len(OpenLetters(instance, heap)) < props.letterCount) =>
              /\ threw' = FALSE
              /\ instance' = instance
              /\ heap' = heap
       /\ (~Evaluator /\ call' = "onEnter" /\ Len(state.activeGuess) < state.letterCount) =>
              /\ threw' = FALSE
              /\ state' = state
              /\ heap' = heap
      ]_vars

\* the GameState s with every rows address replaced by the array the heap holds there
Deep(s, h) ==
    IF s.type = "GameState"
    THEN [s EXCEPT !.states = [k \in DOMAIN s.states |->
                                  [s.states[k] EXCEPT !.rows = h[s.states[k].rows]]]]
    ELSE s

\* C10 as stated: after addLetter, removeLetter or onEnter returns, the GameState that
\* was passed in, its rows arrays and letters included, is what it was before the call.
C10_AsStated ==
    [][call' \in {"addLetter", "removeLetter", "onEnter"} =>
          Deep(state, heap') = Deep(state, heap)]_vars

-----------------------------------------------------------------------------
(* onEnter: the valid-word test and the WinState *)

\* C12: an enter pressed on a GameState whose activeGuess has letterCount letters and is
\* not in the valid-word list leaves the GameState as it was: the same activeGuess, the
\* same board objects, the same rows arrays (no row evaluated, none appended), no error.
C12_InvalidWordIgnored ==
    [][(/\ call' = "onEnter"
        /\ Len(state.activeGuess) = state.letterCount
        /\ state.activeGuess \notin props.validWords) =>
           /\ state' = state
           /\ heap' = heap
           /\ threw' = FALSE]_vars

\* enter has just been pressed on a full guess that is not a valid word, on a game that
\* has a committed row already
C12_Witness ==
    /\ ~Evaluator
    /\ call = "onEnter"
    /\ state.type = "GameState"
    /\ Len(state.activeGuess) = state.letterCount
    /\ state.activeGuess \notin props.validWords
    /\ \E k \in BoardIds : Len(RowsOf(k)) > 1

\* the rows array ends a board the way the record says: a won board has between 1 and
\* guessesAllowed rows, the last of them all MATCH, and the record counts them; a lost
\* board has guessesAllowed full rows, the last of them not all MATCH
RecordFits(record, rows, guessesAllowed) ==
    /\ Len(rows) \in 1..guessesAllowed
    /\ \A n \in DOMAIN rows : Full(rows[n])
    /\ IF record.won
       THEN record.guesses = Len(rows) /\ AllMatch(Last(rows).letter)
       ELSE Len(rows) = guessesAllowed /\ ~AllMatch(Last(rows).letter)

\* C13: after onEnter, the state is a WinState exactly when every board is complete: a
\* GameState keeps a board that is not complete; a WinState has one record per board, in
\* board order, the record of a SUCCESS board is the number of its rows (1 to
\* guessesAllowed), that of a FAIL board is false, and letterCount, guessesAllowed and
\* columns are those of the GameState.
C13_WinStateIffAllComplete ==
    [][call' = "onEnter" =>
          /\ state'.type = "GameState" =>
                 \E k \in DOMAIN state'.states : state'.states[k].complete = Incomplete
          /\ state'.type = "WinState" =>
                 /\ DOMAIN state'.records = DOMAIN state.states
                 /\ \A k \in DOMAIN state.states :
                        RecordFits(state'.records[k], heap'[state.states[k].rows],
                                   state.guessesAllowed)
                 /\ state'.letterCount = state.letterCount
                 /\ state'.guessesAllowed = state.guessesAllowed
                 /\ state'.columns = state.columns]_vars

\* onEnter has just returned a WinState for a game in which one board was won with fewer
\* rows than another board, which was lost
C13_Witness ==
    /\ ~Evaluator
    /\ call = "onEnter"
    /\ state.type = "WinState"
    /\ \E k, j \in DOMAIN state.records :
          /\ state.records[k].won
          /\ ~state.records[j].won
          /\ state.records[k].guesses < state.guessesAllowed

-----------------------------------------------------------------------------
(* The session: what a component sends and what it does with what it receives *)

\* the component of peer p as JSON.stringify shows it
Shown(p) == Stringify(peers[p].state, peers[p].heap)

\* the last step ran a listener of peer p on a message of the given event
Received(p, event) ==
    /\ actor'.peer = p
    /\ actor'.on = "message"
    /\ actor'.e.event = event

\* C11: in every GameState a component reaches by the keys of its user and by the
\* key-pressed, key-removed and enter-pressed messages of its peer, activeGuess has at
\* most letterCount letters.
C11_GuessWithinLetterCount ==
    /\ state.type = "GameState" => Len(state.activeGuess) <= state.letterCount
    /\ \A p \in DOMAIN peers :
          peers[p].state.type = "GameState" =>
              Len(peers[p].state.activeGuess) <= peers[p].state.letterCount

\* a component whose activeGuess is full has just been handed a key-pressed message,
\* and the letter of the message is not the last letter of activeGuess: it was dropped
C11_Witness ==
    /\ actor.on = "message"
    /\ actor.e.event = "key-pressed"
    /\ LET s == peers[actor.peer].state
       IN  /\ s.type = "GameState"
           /\ Len(s.activeGuess) = s.letterCount
           /\ Last(s.activeGuess) # actor.e.value

\* C14 as stated: once the state of a component is a WinState, no step (no key of its
\* user, no message of its peer) makes it a GameState again or changes its records.
C14_AsStated ==
    [][\A p \in DOMAIN peers :
          peers[p].state.type = "WinState" =>
              /\ peers'[p].state.type = "WinState"
              /\ peers'[p].state.records = peers[p].state.records]_vars

\* the letter a key code stands for, and the message a key event is to be sent as
CapitalOf(keyCode) == CHOOSE c \in Alphabet : CharCodeAt(c) = keyCode
EventOf(e) ==
    IF e.keyCode = 8 THEN [event |-> "key-removed"]
    ELSE IF e.keyCode = 13 THEN [event |-> "enter-pressed"]
    ELSE [event |-> "key-pressed", value |-> CapitalOf(e.keyCode)]

\* C15: a key (letter, backspace, enter) that a user presses on a component holding a
\* GameState, its channel open, puts exactly one message behind those the channel
\* already holds for the peer: key-pressed with the capital letter, key-removed or
\* enter-pressed; the channel hands its messages over oldest first.
C15_OneEventPerKeystroke ==
    [][\A p \in DOMAIN peers :
          (/\ actor'.peer = p
           /\ actor'.on = "keydown"
           /\ peers[p].communicator = "open"
           /\ peers[p].state.type = "GameState") =>
              /\ wire'[Other(p)] = Append(wire[Other(p)], EventOf(actor'.e))
              /\ wire'[p] = wire[p]]_vars

\* the user has pressed A and then b, and the channel holds key-pressed A and
\* key-pressed B for the peer, in that order
C15_Witness ==
    /\ actor.on = "keydown"
    /\ actor.e = [keyCode |-> 66, key |-> "b"]
    /\ peers[actor.peer].state.type = "GameState"
    /\ peers[actor.peer].state.activeGuess = <<"A", "B">>
    /\ wire[Other(actor.peer)] = <<[event |-> "key-pressed", value |-> "A"],
                                   [event |-> "key-pressed", value |-> "B"]>>

\* C16: a component that is handed a key-pressed, key-removed, enter-pressed or
\* initialise message sends nothing: the messages the channel holds for its peer are
\* those it held before.
C16_NoEcho ==
    [][\A p \in DOMAIN peers :
          (\E event \in {"key-pressed", "key-removed", "enter-pressed", "initialise"} :
               Received(p, event)) =>
              wire'[Other(p)] = wire[Other(p)]]_vars

\* a component whose user pressed no key has applied a key-pressed message to its
\* GameState, and the channel holds nothing for the peer
C16_Witness ==
    /\ actor.on = "message"
    /\ actor.e.event = "key-pressed"
    /\ peers[actor.peer].pressed = 0
    /\ peers[actor.peer].state.type = "GameState"
    /\ peers[actor.peer].state.activeGuess # <<>>
    /\ Last(peers[actor.peer].state.activeGuess) = actor.e.value
    /\ wire[Other(actor.peer)] = <<>>

\* C17: two components start with equal GameStates and equal valid words, and one
\* user only presses keys; whenever the channel holds no message for the other
\* component, the two states are the same, rows and letters included.
C17_ReplicaFollows ==
    \A a \in harness.typists :
        wire[Other(a)] = <<>> => Shown(Other(a)) = Shown(a)

\* the user has pressed MaxKeys keys, all are delivered, and the component of the
\* peer, whose user pressed none, has come to a WinState
C17_Witness ==
    \E a \in harness.typists :
        /\ harness.typists = {a}
        /\ peers[a].pressed = MaxKeys
        /\ peers[Other(a)].pressed = 0
        /\ wire[Other(a)] = <<>>
        /\ peers[Other(a)].state.type = "WinState"

-----------------------------------------------------------------------------
(* The handshake and concurrent keys *)

\* the fields of a GameState, and the GameState an object holds in them
GameStateFields == {"type", "letterCount", "guessesAllowed", "activeGuess", "columns", "states"}
GameStateOf(shown) == [f \in GameStateFields |-> shown[f]]

C19_AsStated ==
    [][\A p \in DOMAIN peers :
          Received(p, "request") =>
              wire'[Other(p)] = Append(wire[Other(p)],
                                       [event |-> "initialise", value |-> Shown(p)])]_vars

\* C19, amended: a component that is handed a Request while it holds a GameState puts
\* exactly one Initialise with that GameState, rows included, behind the messages the
\* channel holds for the peer; while it holds a WinState it sends nothing.  Its own
\* state stays as it is either way.
C19_ReplyFromGameState ==
    [][\A p \in DOMAIN peers :
          Received(p, "request") =>
              /\ Shown(p)' = Shown(p)
              /\ wire'[Other(p)] =
                     IF peers[p].state.type = "GameState"
                     THEN Append(wire[Other(p)], [event |-> "initialise", value |-> Shown(p)])
                     ELSE wire[Other(p)]]_vars

\* the leader, a letter typed, has been handed the Request, and the channel holds
\* for the joiner the Initialise with that letter
C19_Witness ==
    /\ actor.peer = "leader"
    /\ actor.on = "message"
    /\ actor.e.event = "request"
    /\ wire["joiner"] # <<>>
    /\ Last(wire["joiner"]).event = "initialise"
    /\ Last(wire["joiner"]).value.activeGuess # <<>>
    /\ Last(wire["joiner"]).value = Shown("leader")

\* the channel is open and holds no message for either component
Quiet == \A p \in DOMAIN peers : peers[p].communicator = "open" /\ wire[p] = <<>>

\* both components hold a GameState, and the two differ in activeGuess or in a board
Diverged ==
    /\ \A p \in DOMAIN peers : peers[p].state.type = "GameState"
    /\ GameStateOf(Shown("leader")) # GameStateOf(Shown("joiner"))

\* C20: once every message is delivered and the GameStates of the two components
\* differ, no step of the protocol follows: the only step there is is a key pressed by
\* one user, which leaves the other component as it is and puts that one key in the
\* channel.  Nothing compares or reconciles the two states.
C20_NoReconciliation ==
    [][(Quiet /\ Diverged) =>
          /\ actor'.on = "keydown"
          /\ peers'[Other(actor'.peer)] = peers[Other(actor'.peer)]
          /\ wire'[Other(actor'.peer)] = <<EventOf(actor'.e)>>
          /\ wire'[actor'.peer] = <<>>]_vars

\* each user has pressed one key, A on the leader and b on the joiner, each before the
\* key of the other arrived; both messages are delivered, and the leader holds AB
\* where the joiner holds BA
C20_Witness ==
    /\ Quiet
    /\ Diverged
    /\ \A p \in DOMAIN peers : peers[p].pressed = 1
    /\ peers["leader"].state.activeGuess = <<"A", "B">>
    /\ peers["joiner"].state.activeGuess = <<"B", "A">>

-----------------------------------------------------------------------------
(* The transport: closing, ready() and send *)

\* the data channel of p has reported open and is open
Connected(p) == transport[p].localConnection.channel = "open"

\* the data channel of t, if it has one, its connection and its socket are closed
TornDown(t) ==
    /\ t.localConnection.channel \in {"none", "closed"}
    /\ t.localConnection.closed
    /\ t.socket = "CLOSED"

\* the text is the message of MikordleChat with this event
Tagged(text, event) == text.valid /\ EventTag(text.value) = event

\* the envelopes the socket of p sends in the step
Publishes(p) ==
    SubSeq(transport'[p].sent, Len(transport[p].sent) + 1, Len(transport'[p].sent))

\* C21: a peer that is handed the close event of the other closes its data channel,
\* its connection and its socket, tells its component that there is no communicator
\* (onSet(undefined)), and sends nothing: no close goes back.
C21_CloseReceived ==
    [][\A p \in Peers :
          (actor'.peer = p /\ actor'.on = "message" /\ Tagged(actor'.e, "close")) =>
              /\ transport'[p].localConnection.channel = "closed"
              /\ TornDown(transport'[p])
              /\ transport'[p].open = "closed"
              /\ peers'[p].communicator = "undefined"
              /\ wire'[Other(p)] = wire[Other(p)]
              /\ Publishes(p) = <<>>]_vars

\* the leader has clicked close on an open channel, and the joiner has been handed
\* the close event
C21_Witness ==
    /\ actor.peer = "joiner"
    /\ actor.on = "message"
    /\ Tagged(actor.e, "close")
    /\ TornDown(transport["joiner"])
    /\ TornDown(transport["leader"])
    /\ peers["joiner"].communicator = "undefined"

\* C22 as the spec states it: a click on the close control closes the connection and
\* the socket of the peer, whether its data channel is open or not.
C22_AsStated ==
    [][\A p \in Peers :
          (actor'.peer = p /\ actor'.on = "click") => TornDown(transport'[p])]_vars

\* C23 as the spec states it: the callbacks waiting on ready() run in no step but
\* one that leaves the data channel of the peer open, and the step in which the
\* data channel reports open leaves them run.
C23_AsStated ==
    [][\A p \in Peers :
          /\ (/\ transport[p].readyListeners # <<>>
              /\ ~transport[p].resolved
              /\ transport'[p].resolved) => Connected(p)'
          /\ (/\ transport[p].readyListeners # <<>>
              /\ ~Connected(p)
              /\ Connected(p)') => transport'[p].resolved]_vars

\* peer p calls send in the step: emitClose() of a click, or request() of the
\* callback that waited on ready()
Sends(p) ==
    /\ actor'.peer = p
    /\ \/ actor'.on = "click"
       \/ actor'.on \in {"signal", "datachannel"} /\ call' = "request"

\* the state of the data channel of p when it calls send in the step: a click calls
\* it first thing, the callback of ready() once the handler has returned
ChannelAtSend(p) ==
    IF actor'.on = "click" THEN transport[p].localConnection.channel
    ELSE transport'[p].localConnection.channel

\* C24: a send on a transport whose data channel has not reported open raises 'not
\* open' to the caller; the text is put on no channel and kept nowhere, so that it
\* is never delivered.
C24_NotOpenRaised ==
    [][\A p \in Peers :
          (Sends(p) /\ ChannelAtSend(p) \in {"none", "connecting"}) =>
              /\ threw' = "not open"
              /\ wire' = wire
              /\ Publishes(p) = <<>>
              /\ transport'[p].dataChannel = transport[p].dataChannel]_vars

\* the leader has been handed init and has created its data channel, which has not
\* opened; its user has clicked close, and emitClose has raised 'not open'
C24_Witness ==
    /\ actor.peer = "leader"
    /\ actor.on = "click"
    /\ call = "emitClose"
    /\ threw = "not open"
    /\ transport["leader"].isReady
    /\ transport["leader"].localConnection.channel = "connecting"
    /\ wire["joiner"] = <<>>

-----------------------------------------------------------------------------
(* The transport: the handshake over the relay *)

\* what an envelope a peer sent is: "subscribe", or the type of the negotiation
\* message in it, told apart into "offer" and "answer" for a description
Kind(text) ==
    LET envelope == JSONParse(text).value
    IN  IF envelope.topic = "_subscribe" THEN "subscribe"
        ELSE LET message == JSONParse(envelope.message).value
             IN  IF message.type = "sdp" THEN message.raw.type ELSE message.type

\* the places of the envelopes of a kind among those the socket of p has sent
Sent(p, kind) == {i \in DOMAIN transport[p].sent : Kind(transport[p].sent[i]) = kind}

\* the socket of p has sent a negotiation message
Negotiates(p) == \E i \in DOMAIN transport[p].sent : Kind(transport[p].sent[i]) # "subscribe"

\* p has been handed an init: it has created the data channel
InitReceived(p) == transport[p].localConnection.channel \in {"connecting", "open", "closed"}

\* C25: the joiner, constructed on a known key, sends init exactly once, and not
\* before its socket is open and has sent the subscription; the leader sends no init
\* at all and no negotiation message before it has been handed an init.
C25_RoleAsymmetry ==
    \A p \in Peers :
        IF transport[p].initiate
        THEN IF transport[p].socket = "CONNECTING" THEN transport[p].sent = <<>>
             ELSE /\ Cardinality(Sent(p, "init")) = 1
                  /\ Kind(transport[p].sent[1]) = "subscribe"
                  /\ \A i \in Sent(p, "init") : i > 1
        ELSE /\ Sent(p, "init") = {}
             /\ Negotiates(p) => InitReceived(p)

\* the joiner has sent its one init after the subscription, and the leader, handed
\* it, has sent an offer
C25_Witness ==
    /\ Sent("joiner", "init") = {2}
    /\ Sent("leader", "init") = {}
    /\ Sent("leader", "offer") # {}
    /\ InitReceived("leader")

\* the kinds of the envelopes the socket of p sends in the step
PublishedKinds(p) == [i \in DOMAIN Publishes(p) |-> Kind(Publishes(p)[i])]

\* the kind of the envelope the socket of p is handed in the step, "none" in a step
\* that is no such
HandedKind(p) ==
    IF actor'.peer = p /\ actor'.on = "signal" THEN Kind(actor'.e) ELSE "none"

\* C26: an offer is sent by none but a peer that was handed an init and has created
\* the data channel; an answer is sent in the step that is handed an offer, one
\* answer, and in no other step; the step that is handed an answer sets the remote
\* description and sends nothing, so that the exchange ends there.
C26_HandshakeOrder ==
    [][\A p \in Peers :
          /\ (\E i \in DOMAIN PublishedKinds(p) : PublishedKinds(p)[i] = "offer") =>
                 InitReceived(p)'
          /\ IF HandedKind(p) = "offer" THEN PublishedKinds(p) = <<"answer">>
             ELSE \A i \in DOMAIN PublishedKinds(p) : PublishedKinds(p)[i] # "answer"
          /\ HandedKind(p) = "answer" =>
                 /\ transport[p].localConnection.remoteDescription = "null"
                 /\ transport'[p].localConnection.remoteDescription = "answer"
                 /\ Publishes(p) = <<>>]_vars

\* the leader has been handed the answer to its offer, and has sent one offer and
\* nothing after the answer came
C26_Witness ==
    /\ actor.peer = "leader"
    /\ actor.on = "signal"
    /\ Kind(actor.e) = "answer"
    /\ transport["leader"].localConnection.remoteDescription = "answer"
    /\ Cardinality(Sent("leader", "offer")) = 1
    /\ Cardinality(Sent("joiner", "answer")) = 1

\* an envelope of the kind is held by the relay for p
InFlight(p, kind) == \E i \in DOMAIN relay.inbox[p] : Kind(relay.inbox[p][i]) = kind

\* the init of p was sent, is not on its way and has not arrived
InitLost(p) ==
    /\ Sent(p, "init") # {}
    /\ ~InFlight(Other(p), "init")
    /\ ~InitReceived(Other(p))

\* C27: nothing is sent again.  A peer sends at most one init, at most one offer
\* and only when it was handed an init, at most one answer and only when it was
\* handed an offer.  So a data channel that is open has behind it an init, an offer
\* and an answer that all arrived, and once the init is lost (the joiner sent it
\* before the leader had subscribed) no data channel opens; nothing is raised
\* there but what a click on the close control raises.
C27_NoRetry ==
    /\ \A p \in Peers :
          /\ Cardinality(Sent(p, "init")) <= 1
          /\ Cardinality(Sent(p, "offer")) <= IF InitReceived(p) THEN 1 ELSE 0
          /\ Cardinality(Sent(p, "answer")) <=
                 IF transport[p].localConnection.remoteDescription = "offer" THEN 1 ELSE 0
    /\ \A p \in Peers :
          Connected(p) =>
              \E q \in Peers :
                  /\ InitReceived(q)
                  /\ transport[Other(q)].localConnection.remoteDescription = "offer"
                  /\ transport[q].localConnection.remoteDescription = "answer"
    /\ \A p \in Peers :
          InitLost(p) =>
              /\ \A q \in Peers : ~Connected(q) /\ transport[q].dataChannel = "undefined"
              /\ threw # Nothing => actor.on = "click"

\* the joiner sent its init before the leader had subscribed; the leader has
\* subscribed since and waits, the relay holds nothing, and no channel is open
C27_Witness ==
    /\ InitLost("joiner")
    /\ transport["leader"].socket = "OPEN"
    /\ "leader" \in relay.subscribers
    /\ \A p \in Peers : relay.inbox[p] = <<>> /\ ~Connected(p)
    /\ threw = Nothing

\* C28: the first envelope a socket sends is the subscription, with the channel
\* identifier as its message, and it sends no second one; the waiters of ready()
\* are served (setup has run) only once it is sent, and every other envelope comes
\* after it.
C28_SubscribeFirst ==
    \A p \in Peers :
        /\ transport[p].sent # <<>> =>
               /\ Kind(transport[p].sent[1]) = "subscribe"
               /\ JSONParse(transport[p].sent[1]).value.message = ChannelId
        /\ Sent(p, "subscribe") \subseteq {1}
        /\ transport[p].listening => Sent(p, "subscribe") = {1}
        /\ transport[p].socket = "CONNECTING" => transport[p].sent = <<>>

\* the socket of the joiner has sent the subscription and, after it, the init
C28_Witness ==
    /\ transport["joiner"].listening
    /\ Len(transport["joiner"].sent) >= 2
    /\ Kind(transport["joiner"].sent[1]) = "subscribe"
    /\ Kind(transport["joiner"].sent[2]) = "init"
    /\ "joiner" \in relay.subscribers

-----------------------------------------------------------------------------
(* The transport: payloads that are not the other peer's *)

\* the topic of an envelope the socket is handed, "none" for a text that is not JSON
Topic(text) == IF text.valid THEN text.value.topic ELSE "none"

\* the step hands the socket of p an envelope, or its data channel a text
Handed(p, on) == actor'.peer = p /\ actor'.on = on

\* C29: an envelope of topic _system that a socket is handed, whatever message it
\* carries, reaches no handler: it leaves the peer, its connection and the two
\* components as they are, and nothing is sent.
C29_SystemNotDelivered ==
    [][\A p \in Peers :
          (Handed(p, "signal") /\ Topic(actor'.e) = "_system") =>
              /\ transport'[p] = transport[p]
              /\ peers' = peers
              /\ wire' = wire
              /\ relay'.inbox[Other(p)] = relay.inbox[Other(p)]
              /\ threw' = Nothing]_vars

\* the leader, subscribed and with no data channel yet, has been handed a _system
\* envelope that carries an init, and has created no data channel
C29_Witness ==
    /\ actor.peer = "leader"
    /\ actor.on = "signal"
    /\ Topic(actor.e) = "_system"
    /\ JSONParse(JSONParse(actor.e).value.message).value = InitMessage
    /\ transport["leader"].listening
    /\ ~InitReceived("leader")

\* the events MikordleChat knows
Events == {"key-pressed", "key-removed", "enter-pressed", "initialise", "request", "close"}

\* an envelope that is not JSON, or whose message is not JSON, or whose message has
\* no type or no raw
MalformedEnvelope(text) ==
    \/ ~text.valid
    \/ /\ text.value.topic # "_system"
       /\ \/ ~text.value.message.valid
          \/ "type" \notin DOMAIN text.value.message.value
          \/ "raw" \notin DOMAIN text.value.message.value

\* a text of the data channel that is not JSON, or whose event MikordleChat does not
\* know
MalformedMessage(text) == ~text.valid \/ EventTag(text.value) \notin Events

\* C30: a malformed envelope on a socket, and a malformed text or an unknown event
\* on a data channel, are dropped: the peer, its connection and the two components
\* stay as they are, nothing is sent, and what is in the queue behind the payload
\* is still there for the next step.  Nothing is raised but the TypeError of the
\* message null, which ends the handler and no more.
C30_MalformedDropped ==
    [][\A p \in Peers :
          /\ (Handed(p, "signal") /\ MalformedEnvelope(actor'.e)) =>
                 /\ transport'[p] = transport[p]
                 /\ peers' = peers
                 /\ wire' = wire
                 /\ relay'.inbox = [relay.inbox EXCEPT ![p] = Tail(@)]
                 /\ threw' = IF call' = "hasOwnProperty" THEN "TypeError" ELSE Nothing
          /\ (Handed(p, "message") /\ MalformedMessage(actor'.e)) =>
                 /\ transport'[p] = transport[p]
                 /\ peers' = peers
                 /\ wire' = [wire EXCEPT ![p] = Tail(@)]
                 /\ relay' = relay
                 /\ threw' = Nothing]_vars

\* the noise of the run went to p and is no longer on its way
Dropped(p) ==
    /\ relay.noise # <<>>
    /\ \A i \in DOMAIN relay.noise :
          /\ relay.noise[i].peer = p
          /\ relay.noise[i].kind # "system"
    /\ \A i \in DOMAIN relay.inbox[p] : ~MalformedEnvelope(relay.inbox[p][i])
    /\ \A i \in DOMAIN wire[p] : ~MalformedMessage(wire[p][i])

\* a malformed payload has been dropped by the leader, and the next message, the
\* init or the request of the joiner, has been handed to it and applied: the data
\* channel is created, or the initialise is on its way to the joiner
C30_Witness ==
    /\ Dropped("leader")
    /\ actor.peer = "leader"
    /\ \/ /\ relay.noise[1].via = "socket"
          /\ actor.on = "signal"
          /\ ~MalformedEnvelope(actor.e)
          /\ Topic(actor.e) # "_system"
          /\ Kind(actor.e) = "init"
          /\ call = "createDataChannel"
          /\ transport["leader"].localConnection.channel = "connecting"
       \/ /\ relay.noise[1].via = "channel"
          /\ actor.on = "message"
          /\ Tagged(actor.e, "request")
          /\ wire["joiner"] # <<>>
          /\ Tagged(Last(wire["joiner"]), "initialise")

-----------------------------------------------------------------------------
(* The boards and the shared guess *)

\* board k of a game is in step with the guess: no row and an empty guess, or a last
\* row spelling the guess
InStep(k) ==
    \/ RowsOf(k) = <<>> /\ state.activeGuess = <<>>
    \/ RowsOf(k) # <<>> /\ Spelled(Last(RowsOf(k))) = state.activeGuess

\* C35: in every GameState reached by key, backspace and enter events, every incomplete
\* board is in step with activeGuess: it has no row and the guess is empty, or its
\* last row spells the guess; so when the guess has letterCount letters, the case in
\* which onEnter calls enter, the board has an open row of exactly letterCount
\* letters, and no call has thrown.
C35_InStepWithGuess ==
    (harness.driver = "game") =>
        /\ ~threw
        /\ state.type = "GameState" =>
              \A k \in BoardIds :
                  state.states[k].complete = Incomplete =>
                      /\ InStep(k)
                      /\ Len(state.activeGuess) = state.letterCount =>
                            /\ RowsOf(k) # <<>>
                            /\ Len(Last(RowsOf(k)).letter) = state.letterCount

\* an enter has committed a row: one board is complete, another goes on with a second,
\* open row
C35_Witness ==
    /\ harness.driver = "game"
    /\ call = "onEnter"
    /\ state.type = "GameState"
    /\ \E k \in BoardIds : state.states[k].complete # Incomplete
    /\ \E k \in BoardIds :
          /\ state.states[k].complete = Incomplete
          /\ Len(RowsOf(k)) = 2
          /\ Last(RowsOf(k)).letter = <<>>

\* the letters of a row as add pushed them
Unevaluated(letter) ==
    [i \in DOMAIN letter |-> [letter |-> letter[i].letter, state |-> "INVALID"]]

\* C36: in every reachable board the rows are no more than guessesAllowed; every row
\* but the last holds exactly width letters with the states the evaluation gives them;
\* the last row holds no more than width letters; and the letters of the open row of
\* an incomplete board are all INVALID.
C36_RowsWellFormed ==
    \A k \in BoardIds :
        LET rows == RowsOf(k)
        IN  /\ Len(rows) <= props.guessesAllowed
            /\ \A n \in 1..(Len(rows) - 1) :
                  /\ Len(rows[n].letter) = props.letterCount
                  /\ rows[n].letter = Evaluate(Unevaluated(rows[n].letter), TargetOf(k))
            /\ rows # <<>> => Len(Last(rows).letter) <= props.letterCount
            /\ (rows # <<>> /\ CompleteOf(k) = Incomplete) =>
                  \A i \in DOMAIN Last(rows).letter : Last(rows).letter[i].state = "INVALID"

\* a board with a committed row that holds a POSITION, and letters typed in the open
\* row after it
C36_Witness ==
    \E k \in BoardIds :
        /\ CompleteOf(k) = Incomplete
        /\ Len(RowsOf(k)) = 2
        /\ \E i \in DOMAIN RowsOf(k)[1].letter : RowsOf(k)[1].letter[i].state = "POSITION"
        /\ Len(Last(RowsOf(k)).letter) \in 1..(props.letterCount - 1)

Min(a, b) == IF a < b THEN a ELSE b

\* C37: in every committed row, for every letter c the positions holding c that are
\* MATCH or POSITION number min(occurrences of c in the guess, occurrences of c in the
\* target), and among the positions holding c that are not MATCH, no POSITION stands
\* to the right of one that is not POSITION.
C37_ReferenceScoring ==
    \A k \in BoardIds : \A n \in DOMAIN CommittedRows(k) :
        LET row == CommittedRows(k)[n]
        IN  \A c \in Range(Spelled(row)) \cup Range(TargetOf(k)) :
                /\ Credited(row, c) =
                      Min(Occurrences(Spelled(row), c), Occurrences(TargetOf(k), c))
                /\ \A i, j \in DOMAIN row.letter :
                      (/\ i < j
                       /\ row.letter[i].letter = c
                       /\ row.letter[j].letter = c
                       /\ row.letter[i].state # "MATCH"
                       /\ row.letter[j].state = "POSITION")
                      => row.letter[i].state = "POSITION"

\* a committed row holding a letter at two positions off its place, the target having
\* one occurrence left for it: the left one is POSITION, the right one is not, and
\* the count is that of the target, less than that of the guess
C37_Witness ==
    \E k \in BoardIds : \E n \in DOMAIN CommittedRows(k) :
        LET row == CommittedRows(k)[n]
        IN  \E c \in Range(Spelled(row)) : \E i, j \in DOMAIN row.letter :
                /\ i < j
                /\ row.letter[i].letter = c /\ row.letter[j].letter = c
                /\ row.letter[i].state = "POSITION"
                /\ row.letter[j].state = "INVALID"
                /\ Credited(row, c) = Occurrences(TargetOf(k), c)
                /\ Credited(row, c) < Occurrences(Spelled(row), c)

-----------------------------------------------------------------------------
(* The keys typed while the transport connects *)

\* this step is onKey on a key of the user of p that the component would apply: a
\* letter, backspace or enter, its state a GameState, its communicator set
KeyOfUser(p) ==
    /\ actor'.peer = p
    /\ actor'.on = "keydown"
    /\ peers'[p].pressed = peers[p].pressed + 1
    /\ peers[p].state.type = "GameState"
    /\ peers[p].communicator # "undefined"

\* C34: on a key of the user of a component that holds a communicator, the GameState
\* changes only if the send of the event raised nothing; and while the transport of
\* the communicator is not connected the send raises 'not open', the state and the
\* rows of the boards are left as they were, and nothing is put on the data channel.
C34_KeyAppliedOnlyIfSent ==
    [][\A p \in Peers :
          KeyOfUser(p) =>
              /\ (threw' # Nothing) =>
                    /\ peers'[p].state = peers[p].state
                    /\ peers'[p].heap = peers[p].heap
                    /\ wire' = wire
              /\ ~Connected(p) =>
                    /\ threw' = "not open"
                    /\ peers'[p].state = peers[p].state
                    /\ peers'[p].heap = peers[p].heap
                    /\ wire' = wire]_vars

\* the leader, its data channel created and not yet open, has been handed a letter
\* key its board has room for: 'not open' was raised and the guess is as it was
C34_Witness ==
    /\ actor.peer = "leader"
    /\ actor.on = "keydown"
    /\ IsLetter(actor.e)
    /\ threw = "not open"
    /\ transport["leader"].isReady
    /\ transport["leader"].localConnection.channel = "connecting"
    /\ peers["leader"].state.type = "GameState"
    /\ Len(peers["leader"].state.activeGuess) = 1
    /\ peers["leader"].pressed = 1

-----------------------------------------------------------------------------
(* One data channel per session *)

\* C39: the leader has created at most one data channel and has sent at most one
\* offer, whatever init messages its socket has been handed.
C39_AsStated ==
    /\ transport["leader"].localConnection.created <= 1
    /\ Cardinality(Sent("leader", "offer")) <= 1

-----------------------------------------------------------------------------
(* Connect and the communicator it holds *)

\* C38: whenever Connect shows the leader or the joiner state, it holds a
\* communicator, that communicator has not been closed, and the component has been
\* handed it.
C38_AsStated ==
    \A p \in Peers :
        transport[p].open \in {"leader", "joiner"} =>
            /\ transport[p].communicator = "set"
            /\ ~transport[p].localConnection.closed
            /\ transport[p].socket # "CLOSED"
            /\ peers[p].communicator = "set"

-----------------------------------------------------------------------------
(* The listeners of the component across a change of communicator *)

\* C31: a component that holds no communicator has no listener registered on any
\* transport, a component never has more than one set registered, and a text that
\* arrives on the transport of a communicator the component no longer holds
\* leaves its state and its boards as they were.
C31_AsStated ==
    [][\A p \in Peers :
          /\ peers'[p].listeners <= 1
          /\ peers'[p].communicator = "undefined" => peers'[p].listeners = 0
          /\ (/\ peers[p].communicator = "undefined"
              /\ actor'.peer = p
              /\ actor'.on = "message") =>
                 /\ peers'[p].state = peers[p].state
                 /\ peers'[p].heap = peers[p].heap]_vars

\* the step made a call of props.onEnd
OnEndCalled == Len(home'.ended) = Len(home.ended) + 1

\* C32: when an enter turns the state into a WinState and an onEnd was supplied,
\* onEnd is called: in that step when `continuing` is false, and in the step of the
\* Continue button when `continuing` is true
C32_AsStated ==
    [][/\ (/\ home.mounted /\ state.type = "GameState" /\ state'.type = "WinState"
           /\ props.onEnd # "undefined" /\ ~props.continuing) => OnEndCalled
       /\ (/\ home.mounted /\ state.type = "WinState" /\ call' = "end"
           /\ props.onEnd # "undefined" /\ props.continuing) => OnEndCalled]_vars

RECURSIVE SumOver(_, _)
SumOver(f, S) == IF S = {} THEN 0
                 ELSE LET x == CHOOSE y \in S : TRUE IN f[x] + SumOver(f, S \ {x})

\* the boards of the records that were won
Won(records) == {i \in DOMAIN records : records[i].won}

C40_AsStated ==
    (~home.auto.useToday /\ home.words.kind # "undefined") =>
        IF Len(home.auto.list) >= home.auto.amount
        THEN /\ home.words.kind = "tuple"
             /\ Len(home.words.selected) = home.auto.amount
        ELSE home.words.kind = "Error"


====
